---------------------------- MODULE Spec2Model ----------------------------
(***************************************************************************)
(* Model of cp-shell's remote execution and file transport engine.         *)
(*                                                                         *)
(*   Spec     the device slot, connect, Device.remote and its failure      *)
(*            handling (cpshell/device.py, cpshell/cpboard.py, main.py)    *)
(*   SpecH2D  a host -> device file transfer: send_file_to_remote against  *)
(*            recv_file_from_host (cpshell/utils.py)                       *)
(*   SpecD2H  a device -> host file transfer: recv_file_from_remote        *)
(*            against send_file_to_host (cpshell/utils.py)                 *)
(*   SpecRoundTrip  the two transfers of one file, one after the other     *)
(*   SpecRoute    get_dev_and_path and auto on a path (cpshell/utils.py)   *)
(*   SpecResolve  resolve_path on a path and a current directory           *)
(*                                                                         *)
(* The board's firmware is the environment: at every awaited step it       *)
(* either sends the expected sentinel, sends something else and falls      *)
(* silent, or sends nothing at all; the serial link may be lost at any     *)
(* moment.  DeviceSerial passes CpBoard a keyword it does not accept       *)
(* (device.py:287, cpboard.py:64); the model takes the construction as     *)
(* wired the way cpboard.py reads its options (self._options).             *)
(***************************************************************************)
EXTENDS Integers, Sequences, FiniteSets, TLC

\* ---------------------------------------------------------------- bounds
MaxSessions == 2
MaxLen == 3
MaxChunk == 2
MaxN == 3
MaxB == 4
MaxPath == 4

\* ------------------------------------------------------ program constants
CR  == 13
SOH == 1
STX == 2
ETX == 3
EOT == 4
ACK == 6
\* range(20) of the wake loop (device.py:321)
WakeAttemptsMore == 20 + 1

WakeAttempts == 20
FollowTimeout == 20
XferTimeout == 2

Sessions == 1..MaxSessions
NoDev == 0

VARIABLES
  slot,      \* Device._device: NoDev or a session
  cpb,       \* per session: "unborn", "open" (self.cpb set), "closed" (self.cpb
             \* None), "gone" (the constructor failed and the object is dropped)
  link,      \* per session: "up", or "down" (serial I/O raises SerialException)
  named,     \* sessions whose dev_name_short is set
  tmo,       \* per session: serial.timeout, 0 for None
  repl,      \* per session: REPL state the host has driven the board to
  cur,       \* the session the foreground is operating on
  pc,        \* the foreground's position
  caller,    \* who called remote: "cmd", "setup", "synctime"
  hook,      \* xfer_func of the call: "none", "h2d", "d2h"
  evalMode,  \* TRUE: remote_eval, FALSE: remote
  src,       \* the snippet's bytes
  chunk,     \* options.chunk_size
  updTime,   \* options.upd_time
  ev,        \* what the current call wrote and read, in order
  hist,      \* REPL states the current call went through
  exc,       \* the exception being handled, or "none"
  orig,      \* the first failure of the current call, or "none"
  out,       \* stdout, stderr of the last follow
  res,       \* what the last operation gave its caller
  attempt,   \* wake attempts made by the running connect
  steps,     \* what the running connect has got done, in order
  board,     \* the board behind the port: the port's name, the names in '/'
  rootDirs,  \* per session: root_dirs
  namePath   \* per session: name_path

\* A file transfer, the hook on the host against the helper on the board.
VARIABLES
  xDir,      \* the transfer's direction: "h2d", "d2h", or "off"
  xSrc,      \* the bytes of the source file
  xN,        \* filesize
  xB,        \* options.buffer_size
  hPc,       \* the host hook's position
  dPc,       \* the board helper's position
  hRem,      \* bytes_remaining of the host
  dRem,      \* bytes_remaining of the board
  hWin,      \* read_size of the host's current window
  dWin,      \* read_size of the board's current window
  rBufRem,   \* buf_remaining of the receiving side
  rIdx,      \* buf_index of the receiving side
  wbuf,      \* write_buf of the receiving side
  toDev,     \* characters on the wire to the board's stdin
  toHost,    \* characters on the wire from the board's stdout
  dst,       \* the bytes written to the destination file
  nWin,      \* windows the sender has written
  nAck,      \* ACKs written
  nAckRead,  \* ACKs the sender has read
  nHex,      \* hex characters the sender has written
  xTmo,      \* dev.timeout, 0 for None
  xSave,     \* save_timeout of send_file_to_remote
  xTmo0      \* dev.timeout when the hook was called

xferVars == <<xDir, xSrc, xN, xB, hPc, dPc, hRem, dRem, hWin, dWin, rBufRem, rIdx, wbuf,
              toDev, toHost, dst, nWin, nAck, nAckRead, nHex, xTmo, xSave,
              xTmo0>>

\* A path handed to the router, to auto or to resolve_path.
VARIABLES
  pPath,     \* the path
  pCwd,      \* shell.cur_dir
  pDev,      \* TRUE: Device.get_device() returns a device
  pRoots,    \* the device's root_dirs
  pName,     \* the device's name
  pPc,       \* what is done with the path next
  pRoute,    \* the results of get_dev_and_path so far
  pNorm,     \* the results of resolve_path so far
  pRan       \* the calls auto has made: where, and with which path

pathVars == <<pPath, pCwd, pDev, pRoots, pName, pPc, pRoute, pNorm, pRan>>

\* The hot-plug watcher, the thread of autoconnect_thread.
VARIABLES
  wPc,       \* the watcher's position
  wDev,      \* dev: what find_serial_device_by_port returned
  wTry,      \* i of "for i in range(8)"
  wCur,      \* the session the watcher's connect is building
  wCp        \* is_circuitpython_usb_device(usb_dev) of the event

watchVars == <<wPc, wDev, wTry, wCur, wCp>>

\* The repl passthrough: Repl.run on the foreground, the reader thread of
\* _repl_serial_to_stdout beside it.
VARIABLES
  fPc,       \* Repl.run's position
  rPc,       \* the reader thread's position
  running,   \* self._serial_reader_running.value
  quitFlag,  \* self._quit_serial_reader
  quitNoOut, \* self._quit_when_no_output
  rSave,     \* save_timeout of the reader
  tmo0,      \* dev.timeout when repl was called
  rChar,     \* what the reader's last dev.read(1) returned
  keys,      \* the keys getch has returned
  sent       \* what Repl.run has written to the device

replVars == <<fPc, rPc, running, quitFlag, quitNoOut, rSave, tmo0, rChar, keys, sent>>

\* One rsync command (commands/rsync.py): the two trees it is given and what
\* it has done to the destination.
VARIABLES
  rsSrc,     \* the tree below src_dir
  rsDst,     \* the tree below dst_dir
  rsRoot,    \* TRUE: dst_dir exists
  rsDst0,    \* rsDst when the command was entered
  rsRoot0,   \* rsRoot when the command was entered
  rsMirror,  \* args.mirror
  rsDry,     \* args.dry_run
  rsList,    \* TRUE: listdir_stat takes the arguments rsync hands it
  rsPc,      \* the command's position
  rsOps,     \* the calls of cp, rm and mkdir made so far
  rsExc      \* the exception that ended the command

syncVars == <<rsSrc, rsDst, rsRoot, rsDst0, rsRoot0, rsMirror, rsDry, rsList,
              rsPc, rsOps, rsExc>>

\* One remote_eval of a helper that returns its argument.
VARIABLES
  evV,       \* the argument v
  evPc,      \* how far the call has come
  evArgs,    \* args_arr[0]: the text of v in the shipped source
  evOut,     \* output: what the helper returned on the board
  evStdout,  \* what the trailer printed
  evRes      \* what remote_eval returned or raised

evalVars == <<evV, evPc, evArgs, evOut, evStdout, evRes>>

\* One command line with its output redirected to a file of the device
\* (cmdshell.py: line_to_args, default, postcmd).
VARIABLES
  rdPc,      \* how far the line has come
  rdParent,  \* what the directory of the redirect file is on the board
  rdRan,     \* TRUE: the command's run() was called
  rdCalls,   \* the helpers line_to_args and postcmd have handed to the device
  rdErr      \* the exception onecmd_exec printed

redirVars == <<rdPc, rdParent, rdRan, rdCalls, rdErr>>

\* One call of CpBoard.read_until, alone or as one of the two reads of
\* CpBoard.follow.
VARIABLES
  ruAll,     \* the bytes the board sends during the call
  ruStream,  \* those of them not yet read
  ruEnding,  \* ending
  ruMin,     \* min_num_bytes
  ruLimit,   \* 100 * timeout (0: timeout is None)
  ruSt,      \* serial.timeout (0: None)
  ruSinkOn,  \* TRUE: a data_consumer is given
  ruData,    \* data
  ruSink,    \* what the data_consumer has been given
  ruCount,   \* timeout_count
  ruPc,      \* the call's position
  foPc,      \* follow's position
  foOut,     \* follow's data
  foErr      \* follow's data_err

ruVars == <<ruAll, ruStream, ruEnding, ruMin, ruLimit, ruSt, ruSinkOn, ruData,
            ruSink, ruCount, ruPc, foPc, foOut, foErr>>

\* the commands that take no part in the session protocol
cmdVars == <<syncVars, evalVars, redirVars, ruVars>>

\* what the foreground's calls and connects do not look into
sideVars == <<watchVars, replVars, cmdVars>>

coreVars == <<slot, cpb, link, named, tmo, repl, cur, pc, caller, hook, evalMode,
              src, chunk, updTime, ev, hist, exc, orig, out, res, attempt,
              steps, board, rootDirs, namePath>>

\* all but the transfer
mainVars == <<coreVars, pathVars, sideVars>>

vars == <<mainVars, xferVars>>

\* ------------------------------------------------------------- helpers
W(what, b) == [op |-> "w", what |-> what, b |-> b]
R(what)    == [op |-> "r", what |-> what, b |-> <<>>]
X(what)    == [op |-> "x", what |-> what, b |-> <<>>]

NoRes == [kind |-> "none", v |-> "none"]
Val(v) == [kind |-> "value", v |-> v]
Raise(e) == [kind |-> "raise", v |-> e]

Source(L) == [i \in 1..L |-> 100 + i]

Min(a, b) == IF a < b THEN a ELSE b

\* An attribute of a session object: not set yet, or set to v.
Unset == [set |-> FALSE, v |-> <<>>]
Field(v) == [set |-> TRUE, v |-> v]

\* name_path of a device named name (device.py:77); strings are sequences of
\* characters.
NamePath(name) == <<"/">> \o name \o <<"/">>

\* root_dirs from the names listdir('/') returned (device.py:102)
RootDirsBare(names) == names

RootDirsOf(names) == [i \in 1..Len(names) |-> <<"/">> \o names[i] \o <<"/">>]

\* ------------------------------------------------------------ read_until
\* What the board does at an awaited step while the link is up.
Behaviours == {"sentinel", "partial", "silent"}

\* CpBoard.read_until(min_num_bytes, ending, timeout) with serial.timeout st
\* (0 for None) against a board behaving as beh:
\*   "match"   the returned data ends with the sentinel
\*   "nomatch" the idle counter reached polls = 100 * timeout first
\*   "block"   the first serial.read(min_num_bytes) never returns: without a
\*             serial timeout it waits for a byte that does not come
ReadUntil(beh, st, polls) ==
  CASE beh = "sentinel" -> "match"
    [] beh = "partial"  -> "nomatch"
    [] OTHER            -> IF st = 0 THEN "block" ELSE "nomatch"

\* serial.read(2) of the handshake in exec_raw_no_follow
ReadOK(beh, st) ==
  CASE beh = "sentinel" -> "match"
    [] beh = "partial"  -> "nomatch"
    [] OTHER            -> IF st = 0 THEN "block" ELSE "nomatch"

\* ------------------------------------------------------ order of the steps
\* Device.remote, with enter_raw_repl, exec_raw_no_follow and follow inlined:
\* the position that follows p when p's step succeeds.
AfterSwapped(p) ==
  CASE p = "check0"      -> "raw_enter"
    [] p = "raw_enter"   -> "raw_banner1"
    [] p = "raw_banner1" -> "raw_reboot"
    [] p = "raw_reboot"  -> "raw_banner2"
    [] p = "raw_banner2" -> "exec_prompt"
    [] p = "exec_prompt" -> "exec_write"
    [] p = "exec_write"  -> "xfer"
    [] p = "xfer"        -> "exec_ok"
    [] p = "exec_ok"     -> "follow"
    [] p = "follow"      -> "follow_out"
    [] p = "follow_out"  -> "follow_err"
    [] p = "follow_err"  -> "exit_raw"
    [] OTHER             -> "return"

After(p) ==
  CASE p = "check0"      -> "raw_enter"
    [] p = "raw_enter"   -> "raw_banner1"
    [] p = "raw_banner1" -> "raw_reboot"
    [] p = "raw_reboot"  -> "raw_banner2"
    [] p = "raw_banner2" -> "exec_prompt"
    [] p = "exec_prompt" -> "exec_write"
    [] p = "exec_write"  -> "exec_ok"
    [] p = "exec_ok"     -> "xfer"
    [] p = "xfer"        -> "follow"
    [] p = "follow"      -> "follow_out"
    [] p = "follow_out"  -> "follow_err"
    [] p = "follow_err"  -> "exit_raw"
    [] OTHER             -> "return"

\* The REPL state the host has reached when step p has succeeded; ctrl-B
\* (exit_raw_repl, cpboard.py:147) leads to FRIENDLY wherever it is written.
Entered(p) ==
  CASE p = "raw_banner2" -> "RAW"
    [] p = "exec_ok"     -> "RUNNING"
    [] p = "follow"      -> "DRAIN_STDOUT"
    [] p = "follow_out"  -> "DRAIN_STDERR"
    [] p = "follow_err"  -> "RAW"
    [] OTHER             -> "same"

\* The timeout each read_until of a remote call is given.
StepTimeout(p) ==
  CASE p = "raw_reboot" -> 1
    [] p \in {"follow_out", "follow_err"} -> FollowTimeout
    [] OTHER -> 10

\* ------------------------------------------------------- shared step parts
sessVars == <<slot, cpb, link, named, tmo>>
callVars == <<cur, caller, hook, evalMode, src>>
\* the options, and the transfer and the path that these steps do not look
\* into
cfgVars  == <<chunk, updTime, board, xferVars, pathVars, sideVars>>

\* An exception e raised at the current step inside remote's try block; o is
\* the failure it started as.
FailAs(e, o) ==
  /\ pc' = "except"
  /\ exc' = e
  /\ orig' = IF orig = "none" THEN o ELSE orig

Fail(e) == FailAs(e, e)

\* The current step succeeded: go on, log what it wrote and read, and note the
\* REPL state entered.
Advance(p, events) ==
  LET exits == \E i \in 1..Len(events) : events[i].op = "w" /\ events[i].b = <<CR, STX>>
      st == IF exits THEN "FRIENDLY" ELSE Entered(p)
  IN
  /\ pc' = After(p)
  /\ ev' = ev \o events
  /\ repl' = IF st = "same" THEN repl ELSE [repl EXCEPT ![cur] = st]
  /\ hist' = IF st = "same" THEN hist ELSE Append(hist, st)
  /\ UNCHANGED <<exc, orig>>

\* An exception e leaves remote (or connect's constructor) for the caller.
\* A command's caller is the shell's onecmd, which reports and goes on;
\* connect turns a DeviceError into False and lets the others pass
\* (main.py:532-537).
Propagate(e) ==
  /\ pc' = "done"
  /\ exc' = "none"
  /\ res' = IF caller # "cmd" /\ e = "DeviceError" THEN Val("False") ELSE Raise(e)

\* Device.check_cpb
CheckCpb(s) == cpb[s] = "open"

\* Session s ends as st: its serial object is gone, and with it the link, the
\* timeout and the REPL state the host knew.
Retire(s, st) ==
  /\ cpb' = [cpb EXCEPT ![s] = st]
  /\ link' = [link EXCEPT ![s] = "up"]
  /\ tmo' = [tmo EXCEPT ![s] = 0]
  /\ repl' = [repl EXCEPT ![s] = "UNKNOWN"]

\* Device.close (device.py:123-127)
CloseSessionNot(s) == UNCHANGED <<cpb, link, tmo, repl>>

CloseSession(s) == Retire(s, "closed")

\* An exception leaves DeviceSerial.__init__: nothing refers to the new object
\* any more (main.py:532-537).  A command's device stays where it is.
Dropped(s) ==
  IF caller # "cmd" /\ cpb[s] = "open"
    THEN Retire(s, "gone")
    ELSE UNCHANGED <<cpb, link, tmo, repl>>

\* The name the DeviceError of remote's first handler formats: dev_name_short
\* is set only at the end of DeviceSerial.__init__, after setup().
DeviceErrorOf(s) == IF s \in named THEN "DeviceError" ELSE "AttributeError"

\* An awaited step of a remote call: read_until(1, sentinel, timeout), with the
\* writes that follow it in the same function.
AwaitStep(p, name, then, newOut) ==
  /\ pc = p
  /\ IF link[cur] = "down"
       THEN /\ Fail("SerialException")
            /\ UNCHANGED <<ev, repl, hist, out>>
       ELSE \E beh \in Behaviours :
              LET o == ReadUntil(beh, tmo[cur], 100 * StepTimeout(p)) IN
              CASE o = "match"   -> Advance(p, <<R(name)>> \o then) /\ out' = newOut
                [] o = "nomatch" -> /\ Fail("CpBoardError")
                                    /\ UNCHANGED <<ev, repl, hist, out>>
                [] OTHER         -> /\ pc' = "blocked"
                                    /\ UNCHANGED <<ev, repl, hist, exc, orig, out>>
  /\ UNCHANGED <<sessVars, callVars, cfgVars, res, attempt>>
  /\ UNCHANGED <<steps, rootDirs, namePath>>

\* ------------------------------------------------------------ Device.remote
NoOut == [stdout |-> "none", stderr |-> "none"]

\* The calls the commands make: remote_eval without a hook (utils.auto, date),
\* remote with a transfer hook (cp.py:57-70, cat.py:27-29).
Calls ==
  {[hook |-> "none", eval |-> TRUE], [hook |-> "h2d", eval |-> FALSE],
   [hook |-> "d2h", eval |-> FALSE]}

\* A command calls dev.remote / dev.remote_eval on the device of the slot
\* (utils.auto, cat, cp, date: "if dev:" holds for a closed device too).
StartRemote(h, e, L) ==
  /\ pc = "idle"
  /\ slot # NoDev
  /\ cur' = slot
  /\ caller' = "cmd"
  /\ hook' = h
  /\ evalMode' = e
  /\ src' = Source(L)
  /\ pc' = "check0"
  /\ ev' = <<>>
  /\ hist' = <<repl[slot]>>
  /\ exc' = "none"
  /\ orig' = "none"
  /\ out' = NoOut
  /\ res' = NoRes
  /\ UNCHANGED <<sessVars, repl, cfgVars, attempt>>
  /\ UNCHANGED <<steps, rootDirs, namePath>>

\* device.py:186, check_cpb before the try block: its DeviceError meets no handler.
Check0 ==
  /\ pc = "check0"
  /\ IF CheckCpb(cur)
       THEN pc' = After("check0") /\ UNCHANGED <<exc, orig, res>>
       ELSE Propagate("DeviceError") /\ orig' = "DeviceError"
  /\ UNCHANGED <<sessVars, repl, callVars, cfgVars, ev, hist, out, attempt>>
  /\ UNCHANGED <<steps, rootDirs, namePath>>

\* enter_raw_repl: ctrl-C twice, flush the input, ctrl-A (cpboard.py:118-127)
RawEnter ==
  /\ pc = "raw_enter"
  /\ IF link[cur] = "down"
       THEN Fail("SerialException") /\ UNCHANGED <<ev, repl, hist>>
       ELSE Advance("raw_enter", <<W("interrupt", <<CR, ETX, ETX>>), W("enter_raw", <<CR, SOH>>)>>)
  /\ UNCHANGED <<sessVars, callVars, cfgVars, out, res, attempt>>
  /\ UNCHANGED <<steps, rootDirs, namePath>>

\* the raw REPL banner, then ctrl-D for the soft reset (cpboard.py:128-134)
RawBanner1 == AwaitStep("raw_banner1", "raw_banner", <<W("soft_reset", <<EOT>>)>>, out)

\* the soft reboot banner (cpboard.py:135-138)
RawReboot == AwaitStep("raw_reboot", "soft_reboot", <<>>, out)

\* the raw REPL banner after the reset (cpboard.py:141-144)
RawBanner2 == AwaitStep("raw_banner2", "raw_banner", <<>>, out)

\* check_cpb (device.py:190), then the '>' prompt (cpboard.py:172-174)
ExecPrompt ==
  /\ pc = "exec_prompt"
  /\ IF CheckCpb(cur)
       THEN AwaitStep("exec_prompt", "prompt", <<>>, out)
       ELSE /\ Fail("DeviceError")
            /\ UNCHANGED <<sessVars, repl, callVars, cfgVars, ev, hist, out, res, attempt>>
  /\ UNCHANGED <<steps, rootDirs, namePath>>

\* The writes of the chunk loop of exec_raw_no_follow (cpboard.py:177-180):
\* for i in range(0, len, chunk_size): write(command[i:min(i + chunk_size, len)])
ChunksDropTail(b, c) ==
  [k \in 1..(Len(b) \div c) |-> W("src", SubSeq(b, (k - 1) * c + 1, k * c))]

Chunks(b, c) ==
  [k \in 1..((Len(b) + c - 1) \div c) |->
      W("src", SubSeq(b, (k - 1) * c + 1, Min(k * c, Len(b))))]

\* the chunks of the source, then one 0x04 (cpboard.py:177-181)
ExecWrite ==
  /\ pc = "exec_write"
  /\ IF link[cur] = "down"
       THEN Fail("SerialException") /\ UNCHANGED <<ev, repl, hist>>
       ELSE Advance("exec_write", Chunks(src, chunk) \o <<W("eot", <<EOT>>)>>)
  /\ UNCHANGED <<sessVars, callVars, cfgVars, out, res, attempt>>
  /\ UNCHANGED <<steps, rootDirs, namePath>>

\* the two handshake bytes (cpboard.py:184-186)
ExecOK ==
  /\ pc = "exec_ok"
  /\ IF link[cur] = "down"
       THEN Fail("SerialException") /\ UNCHANGED <<ev, repl, hist>>
       ELSE \E beh \in Behaviours :
              LET o == ReadOK(beh, tmo[cur]) IN
              CASE o = "match"   -> Advance("exec_ok", <<R("OK")>>)
                [] o = "nomatch" -> Fail("CpBoardError") /\ UNCHANGED <<ev, repl, hist>>
                [] OTHER         -> pc' = "blocked" /\ UNCHANGED <<ev, repl, hist, exc, orig>>
  /\ UNCHANGED <<sessVars, callVars, cfgVars, out, res, attempt>>
  /\ UNCHANGED <<steps, rootDirs, namePath>>

\* How a transfer hook can end while the link is up: send_file_to_remote
\* raises RuntimeError on a missing or wrong ACK (utils.py:650-651);
\* recv_file_from_remote has no failure exit of its own and waits for the
\* characters of the window (utils.py:675-676).
XferOutcomes(h) == IF h = "h2d" THEN {"ok", "desync"} ELSE {"ok", "block"}

\* xfer_func(self, *args) (device.py:192-193).  The hooks do their I/O through
\* Device.read and Device.write, which close the session on a serial error
\* and raise DeviceError (device.py:143-151, 246-254).
Xfer ==
  /\ pc = "xfer"
  /\ IF hook = "none"
       THEN Advance("xfer", <<>>) /\ UNCHANGED <<cpb, link, tmo>>
       ELSE IF link[cur] = "down"
         THEN /\ CloseSession(cur)
              /\ FailAs("DeviceError", "SerialException")
              /\ UNCHANGED <<ev, hist>>
         ELSE \E o \in XferOutcomes(hook) :
                CASE o = "ok"     -> Advance("xfer", <<X(hook)>>) /\ UNCHANGED <<cpb, link, tmo>>
                  [] o = "desync" -> /\ Fail("RuntimeError")
                                     /\ tmo' = [tmo EXCEPT ![cur] = XferTimeout]
                                     /\ UNCHANGED <<cpb, link, ev, repl, hist>>
                  [] OTHER        -> /\ pc' = "blocked"
                                     /\ UNCHANGED <<cpb, link, tmo, ev, repl, hist, exc, orig>>
  /\ UNCHANGED <<slot, named, callVars, cfgVars, out, res, attempt>>
  /\ UNCHANGED <<steps, rootDirs, namePath>>

\* check_cpb (device.py:194), then follow is entered (device.py:195)
Follow ==
  /\ pc = "follow"
  /\ IF CheckCpb(cur)
       THEN Advance("follow", <<>>)
       ELSE Fail("DeviceError") /\ UNCHANGED <<ev, repl, hist>>
  /\ UNCHANGED <<sessVars, callVars, cfgVars, out, res, attempt>>
  /\ UNCHANGED <<steps, rootDirs, namePath>>

\* stdout up to the first 0x04 (cpboard.py:151-154)
FollowOut ==
  \E so \in {"value", "junk"} :
    AwaitStep("follow_out", "stdout_eot", <<>>, [out EXCEPT !.stdout = so])

\* What follow writes once it has both terminators: nothing, it returns the
\* two buffers (cpboard.py:160-163).
FollowTailExits == <<W("exit_raw", <<CR, STX>>)>>

FollowTail == <<>>

\* stderr up to the second 0x04 (cpboard.py:157-160)
FollowErr ==
  \E se \in {"empty", "traceback"} :
    AwaitStep("follow_err", "stderr_eot", FollowTail, [out EXCEPT !.stderr = se])

\* check_cpb (device.py:196), then exit_raw_repl (device.py:197, cpboard.py:147)
ExitRaw ==
  /\ pc = "exit_raw"
  /\ IF ~CheckCpb(cur)
       THEN Fail("DeviceError") /\ UNCHANGED <<ev, repl, hist>>
       ELSE IF link[cur] = "down"
         THEN Fail("SerialException") /\ UNCHANGED <<ev, repl, hist>>
         ELSE Advance("exit_raw", <<W("exit_raw", <<CR, STX>>)>>)
  /\ UNCHANGED <<sessVars, callVars, cfgVars, out, res, attempt>>
  /\ UNCHANGED <<steps, rootDirs, namePath>>

\* remote_eval: eval of the stdout remote returned (device.py:214)
Eval(o) == IF o = "value" THEN Val("value") ELSE Raise("SyntaxError")

\* What a command gets from remote / remote_eval: remote returns the stdout
\* of follow and drops its stderr (device.py:195, 202, 214).
ResultOf(e, o) == IF e THEN Eval(o.stdout) ELSE Val(o.stdout)

\* The handlers of remote (device.py:203-208): a SerialException or TypeError
\* becomes a DeviceError; anything else gets exit_raw_repl, close and is
\* raised again.  exit_raw_repl is called on self.cpb, which is None once the
\* session was closed, and writes to the link.
Except ==
  /\ pc = "except"
  /\ IF exc \in {"SerialException", "TypeError"}
       THEN /\ Propagate(DeviceErrorOf(cur))
            /\ Dropped(cur)
            /\ UNCHANGED ev
       ELSE IF ~CheckCpb(cur)
         THEN /\ Propagate("AttributeError")
              /\ Dropped(cur)
              /\ UNCHANGED ev
         ELSE IF link[cur] = "down"
           THEN /\ Propagate("SerialException")
                /\ Dropped(cur)
                /\ UNCHANGED ev
           ELSE /\ ev' = Append(ev, W("exit_raw", <<CR, STX>>))
                /\ CloseSession(cur)
                /\ Propagate(exc)
  /\ UNCHANGED <<slot, named, callVars, cfgVars, hist, orig, out, attempt>>
  /\ UNCHANGED <<steps, rootDirs, namePath>>

\* Where setup() goes when its listdir has returned: on to sync_time when
\* upd_time is set (device.py:104-107), else to the end of the constructor.
SetupNextSkipsTime(c, upd) == "c_publish"

SetupNext(c, upd) == IF c = "setup" /\ upd THEN "check0" ELSE "c_publish"

\* remote returns (device.py:202).  A command gets the result; setup() goes on
\* to sync_time when upd_time is set (device.py:101-107, 238-244) and
\* DeviceSerial.__init__ ends (device.py:336-337).
Return ==
  /\ pc = "return"
  /\ CASE caller = "cmd" ->
            /\ res' = ResultOf(evalMode, out)
            /\ pc' = "done"
            /\ UNCHANGED <<cpb, link, tmo, repl, caller, hook, evalMode, ev, hist, out, exc, steps,
                           rootDirs>>
       [] caller = "setup" /\ Eval(out.stdout).kind = "raise" ->
            /\ Propagate("SyntaxError")
            /\ Retire(cur, "gone")
            /\ UNCHANGED <<caller, hook, evalMode, ev, hist, out, steps, rootDirs>>
       [] caller = "setup" /\ Eval(out.stdout).kind # "raise"
              /\ SetupNext(caller, updTime) = "check0" ->
            /\ pc' = "check0"
            /\ caller' = "synctime"
            /\ hook' = "none"
            /\ evalMode' = FALSE
            /\ ev' = <<>>
            /\ hist' = <<repl[cur]>>
            /\ out' = NoOut
            /\ steps' = Append(steps, "listdir")
            /\ rootDirs' = [rootDirs EXCEPT ![cur] = Field(RootDirsOf(board.names))]
            /\ UNCHANGED <<cpb, link, tmo, repl, res, exc>>
       [] OTHER ->
            /\ pc' = "c_publish"
            /\ steps' = Append(steps, IF caller = "setup" THEN "listdir" ELSE "time")
            /\ rootDirs' = IF caller = "setup"
                             THEN [rootDirs EXCEPT ![cur] = Field(RootDirsOf(board.names))]
                             ELSE rootDirs
            /\ UNCHANGED <<cpb, link, tmo, repl, caller, hook, evalMode, ev, hist, out, res, exc>>
  /\ UNCHANGED <<slot, named, cur, src, cfgVars, orig, attempt, namePath>>

\* ------------------------------------------------------------------ connect
\* connect(port) builds a DeviceSerial (main.py:528-533, device.py:260-264)
Connect ==
  /\ pc = "idle"
  /\ \E s \in Sessions :
       /\ cpb[s] = "unborn"
       /\ \A t \in Sessions : t < s => cpb[t] # "unborn"
       /\ cur' = s
  /\ pc' = "c_open"
  /\ caller' = "setup"
  /\ hook' = "none"
  /\ evalMode' = TRUE
  /\ \E L \in 1..MaxLen : src' = Source(L)
  /\ ev' = <<>>
  /\ hist' = <<>>
  /\ exc' = "none"
  /\ orig' = "none"
  /\ out' = NoOut
  /\ res' = NoRes
  /\ attempt' = 0
  /\ steps' = <<>>
  /\ UNCHANGED <<sessVars, repl, cfgVars, rootDirs, namePath>>

\* CpBoard(port, ...) opens the port; a CpBoardError ends in sys.exit(1)
\* (device.py:286-291, cpboard.py:64-90), which the shell's onecmd absorbs.
ConnectOpen ==
  /\ pc = "c_open"
  /\ \/ /\ cpb' = [cpb EXCEPT ![cur] = "open"]
        /\ pc' = "c_ctrlc"
        /\ steps' = Append(steps, "open")
        /\ UNCHANGED <<res, exc>>
     \/ /\ Propagate("SystemExit")
        /\ UNCHANGED <<cpb, steps>>
  /\ UNCHANGED <<slot, link, named, tmo, repl, callVars, cfgVars, ev, hist, orig, out, attempt>>
  /\ UNCHANGED <<rootDirs, namePath>>

\* ctrl-C, written again every 0.5 s until a write succeeds (device.py:296-316)
ConnectCtrlC ==
  /\ pc = "c_ctrlc"
  /\ link[cur] = "up"
  /\ pc' = "c_wake"
  /\ UNCHANGED <<sessVars, repl, callVars, cfgVars, ev, hist, exc, orig, out, res, attempt>>
  /\ UNCHANGED <<steps, rootDirs, namePath>>

\* One round of the wake loop: ctrl-C CR, read_until(1, '>>> ', timeout=0.1)
\* (device.py:320-333).  The serial errors of this loop are not caught in the
\* constructor.
WakePolls == 10

ConnectWake ==
  /\ pc = "c_wake"
  /\ IF link[cur] = "down"
       THEN Propagate("SerialException") /\ Retire(cur, "gone") /\ UNCHANGED <<hist, attempt, steps>>
       ELSE \E beh \in Behaviours :
              LET o == ReadUntil(beh, tmo[cur], WakePolls) IN
              CASE o = "match" ->
                     /\ repl' = [repl EXCEPT ![cur] = "FRIENDLY"]
                     /\ hist' = <<"FRIENDLY">>
                     /\ pc' = "check0"
                     /\ attempt' = 0
                     /\ steps' = Append(steps, "prompt")
                     /\ UNCHANGED <<cpb, link, tmo, res, exc>>
                [] o = "nomatch" /\ attempt + 1 < WakeAttempts ->
                     /\ attempt' = attempt + 1
                     /\ UNCHANGED <<cpb, link, tmo, pc, repl, hist, res, exc, steps>>
                [] o = "nomatch" /\ attempt + 1 >= WakeAttempts ->
                     /\ attempt' = attempt + 1
                     /\ Propagate("DeviceError")
                     /\ Retire(cur, "gone")
                     /\ UNCHANGED <<hist, steps>>
                [] OTHER ->
                     /\ pc' = "blocked"
                     /\ UNCHANGED <<cpb, link, tmo, attempt, repl, hist, res, exc, steps>>
  /\ UNCHANGED <<slot, named, callVars, cfgVars, ev, orig, out, rootDirs, namePath>>

\* Device.set_device (device.py:71-77): the session of the slot is closed
\* before the new one is installed.
SetDeviceNoClose(new) ==
  /\ slot' = new
  /\ namePath' = [namePath EXCEPT ![new] = Field(NamePath(board.port))]
  /\ UNCHANGED <<cpb, link, tmo, repl>>

SetDevice(new) ==
  /\ IF slot # NoDev
       THEN CloseSession(slot)
       ELSE UNCHANGED <<cpb, link, tmo, repl>>
  /\ slot' = new
  /\ namePath' = [namePath EXCEPT ![new] = Field(NamePath(board.port))]

\* The constructor ends (dev_name_short, device.py:337) and connect publishes
\* the session (main.py:538-539).
ConnectPublish ==
  /\ pc = "c_publish"
  /\ named' = named \cup {cur}
  /\ SetDevice(cur)
  /\ res' = Val("True")
  /\ pc' = "done"
  /\ UNCHANGED <<callVars, cfgVars, ev, hist, exc, orig, out, attempt>>
  /\ UNCHANGED <<steps, rootDirs>>

\* The command is over and the shell reads the next line (cmdshell.py:384-404):
\* what the finished call held is gone.
Prompt ==
  /\ pc = "done"
  /\ pc' = "idle"
  /\ cur' = NoDev
  /\ caller' = "cmd"
  /\ hook' = "none"
  /\ evalMode' = FALSE
  /\ src' = <<>>
  /\ ev' = <<>>
  /\ hist' = <<>>
  /\ exc' = "none"
  /\ orig' = "none"
  /\ out' = NoOut
  /\ res' = NoRes
  /\ attempt' = 0
  /\ steps' = <<>>
  /\ UNCHANGED <<sessVars, repl, cfgVars, rootDirs, namePath>>

\* Device.close (device.py:123-127) on the session of the slot, between two
\* commands: the autoconnect thread closes a device whose port was removed
\* (main.py:170-175).
Close ==
  /\ pc = "idle"
  /\ slot # NoDev
  /\ cpb[slot] = "open"
  /\ CloseSession(slot)
  /\ UNCHANGED <<slot, named, callVars, cfgVars, pc, ev, hist, exc, orig, out, res, attempt>>
  /\ UNCHANGED <<steps, rootDirs, namePath>>

\* The serial link of an open session is lost: from now on its reads and
\* writes raise SerialException.
LinkLoss(s) ==
  /\ cpb[s] = "open"
  /\ link[s] = "up"
  /\ link' = [link EXCEPT ![s] = "down"]
  /\ UNCHANGED <<slot, cpb, named, tmo, repl, callVars, cfgVars, pc, ev, hist, exc, orig, out, res, attempt>>
  /\ UNCHANGED <<steps, rootDirs, namePath>>

\* ------------------------------------------------------------ specification
\* No watcher thread runs (--no-autoconnect, main.py:126-127).
WatchOff == wPc = "off" /\ wDev = NoDev /\ wTry = 0 /\ wCur = NoDev /\ wCp = FALSE

\* No repl command runs.
ReplOff ==
  /\ fPc = "off" /\ rPc = "off"
  /\ running = FALSE /\ quitFlag = FALSE /\ quitNoOut = FALSE
  /\ rSave = 0 /\ tmo0 = 0 /\ rChar = "none"
  /\ keys = <<>> /\ sent = <<>>

\* The tree below a directory: its entries by path relative to the directory,
\* one component per element.  A file has its content and its mtime, and a
\* name below another exists only when that one is a directory.
TreeNames == {"x", "y"}

SubNames == {"p"}

TreePaths ==
  {<<n>> : n \in TreeNames} \cup {<<n, q>> : n \in TreeNames, q \in SubNames}

Absent == [t |-> "none", c |-> "", m |-> 0]

Dir == [t |-> "d", c |-> "", m |-> 0]

File(c, m) == [t |-> "f", c |-> c, m |-> m]

OldTime == 1

NewTime == 2

\* the clock at the time of a copy, later than every mtime of the two trees
NowTime == 3

EmptyTree == [q \in TreePaths |-> Absent]

Files == {File("A", OldTime), File("A", NewTime), File("B", OldTime), File("B", NewTime)}

Trees ==
  {f \in [TreePaths -> Files \cup {Absent, Dir}] :
     \A q \in TreePaths :
       Len(q) = 2 => /\ f[q] # Dir
                     /\ (f[q] # Absent => f[<<q[1]>>] = Dir)}

\* No rsync command runs.
SyncOff ==
  /\ rsSrc = EmptyTree /\ rsDst = EmptyTree /\ rsDst0 = EmptyTree
  /\ rsRoot = FALSE /\ rsRoot0 = FALSE
  /\ rsMirror = FALSE /\ rsDry = FALSE /\ rsList = FALSE
  /\ rsPc = "off" /\ rsOps = {} /\ rsExc = "none"

\* Python values: an atom has its text, a container its items (atoms; the
\* items of a dict are a key and its value).
Atom(k, v) == [k |-> k, v |-> v]

NoneV == [k |-> "none", v |-> <<"None">>, items |-> <<>>]

\* No remote_eval of the identity helper runs.
EvalOff ==
  /\ evV = NoneV /\ evPc = "off" /\ evArgs = <<>> /\ evOut = NoneV
  /\ evStdout = <<>> /\ evRes = NoRes

\* No redirected command line runs.
RedirOff ==
  rdPc = "off" /\ rdParent = "none" /\ rdRan = FALSE /\ rdCalls = <<>> /\ rdErr = "none"

\* No read_until is looked into.
RuOff ==
  /\ ruAll = <<>> /\ ruStream = <<>> /\ ruEnding = <<>> /\ ruMin = 0
  /\ ruLimit = 0 /\ ruSt = 0 /\ ruSinkOn = FALSE /\ ruData = <<>>
  /\ ruSink = <<>> /\ ruCount = 0 /\ ruPc = "off"
  /\ foPc = "off" /\ foOut = <<>> /\ foErr = <<>>

CmdOff == SyncOff /\ EvalOff /\ RedirOff /\ RuOff

SideOff == WatchOff /\ ReplOff /\ CmdOff

\* No path is looked at.
PathOff ==
  /\ pPath = <<>> /\ pCwd = <<>>
  /\ pDev = FALSE /\ pRoots = {} /\ pName = <<>>
  /\ pPc = "off"
  /\ pRoute = <<>> /\ pNorm = <<>> /\ pRan = <<>>

\* No transfer is modelled step by step.
XferOff ==
  /\ xDir = "off" /\ xSrc = <<>>
  /\ xN = 0 /\ xB = 0
  /\ hPc = "off" /\ dPc = "off"
  /\ hRem = 0 /\ dRem = 0 /\ hWin = 0 /\ dWin = 0
  /\ rBufRem = 0 /\ rIdx = 0 /\ wbuf = <<>>
  /\ toDev = <<>> /\ toHost = <<>> /\ dst = <<>>
  /\ nWin = 0 /\ nAck = 0 /\ nAckRead = 0 /\ nHex = 0
  /\ xTmo = 0 /\ xSave = 0 /\ xTmo0 = 0

\* The boards a port can lead to: the port's name (self.name = port,
\* device.py:283) and the names its listdir('/') returns.
Ports == {<<"b">>, <<"/", "b">>}
Listings == {<< <<"a">> >>, << <<"a">>, <<"b">> >>}
Boards == [port : Ports, names : Listings]
OneBoard == [port |-> <<"b">>, names |-> << <<"a">> >>]
NoBoard == [port |-> <<>>, names |-> <<>>]

\* The shell has started and no device is connected.
Start ==
  /\ XferOff
  /\ PathOff
  /\ slot = NoDev
  /\ cpb = [s \in Sessions |-> "unborn"]
  /\ link = [s \in Sessions |-> "up"]
  /\ named = {}
  /\ tmo = [s \in Sessions |-> 0]
  /\ repl = [s \in Sessions |-> "UNKNOWN"]
  /\ cur = NoDev
  /\ pc = "idle"
  /\ caller = "cmd"
  /\ hook = "none"
  /\ evalMode = FALSE
  /\ src = <<>>
  /\ ev = <<>>
  /\ hist = <<>>
  /\ exc = "none"
  /\ orig = "none"
  /\ out = NoOut
  /\ res = NoRes
  /\ attempt = 0
  /\ steps = <<>>
  /\ rootDirs = [s \in Sessions |-> Unset]
  /\ namePath = [s \in Sessions |-> Unset]

Init ==
  /\ Start
  /\ SideOff
  /\ chunk \in 1..MaxChunk
  /\ updTime \in BOOLEAN
  /\ board = OneBoard

\* The same shell, on any of the boards.
InitSetup ==
  /\ Start
  /\ SideOff
  /\ chunk = 1
  /\ updTime \in BOOLEAN
  /\ board \in Boards

Next ==
  \/ \E c \in Calls, L \in 1..MaxLen : StartRemote(c.hook, c.eval, L)
  \/ Check0
  \/ RawEnter
  \/ RawBanner1
  \/ RawReboot
  \/ RawBanner2
  \/ ExecPrompt
  \/ ExecWrite
  \/ ExecOK
  \/ Xfer
  \/ Follow
  \/ FollowOut
  \/ FollowErr
  \/ ExitRaw
  \/ Return
  \/ Except
  \/ Connect
  \/ ConnectOpen
  \/ ConnectCtrlC
  \/ ConnectWake
  \/ ConnectPublish
  \/ Prompt
  \/ Close
  \/ \E s \in Sessions : LinkLoss(s)

Spec == Init /\ [][Next]_vars

SpecSetup == InitSetup /\ [][Next]_vars

\* ------------------------------------------------------- hot-plug watcher
\* autoconnect_thread (main.py:139-175) runs beside the command loop.  Its
\* connect is the foreground's connect (main.py:528-539), taken here in three
\* steps: the port is opened, the constructor's serial I/O ends one way or
\* another, set_device publishes.
AddTries == 8

\* what the foreground's current call holds, which the watcher does not touch
fgVars == <<callVars, pc, ev, hist, exc, orig, out, res, attempt, steps,
            chunk, updTime, board, xferVars, pathVars, replVars, cmdVars>>

\* find_serial_device_by_port(node): the session of the slot when the node is
\* its port.  The function is called at main.py:156 and defined nowhere in
\* the sources; it is taken as the specification describes it.
FindSerialDeviceByPort(match) == IF match /\ slot # NoDev THEN slot ELSE NoDev

\* epoll.poll() returns an event of the tty monitor (main.py:147-156)
WatchEvent ==
  /\ wPc = "poll"
  /\ \E action \in {"add", "remove"}, match \in BOOLEAN, cp \in BOOLEAN :
       /\ wPc' = action
       /\ wDev' = FindSerialDeviceByPort(match)
       /\ wCp' = cp
  /\ wTry' = 0
  /\ UNCHANGED <<sessVars, repl, rootDirs, namePath, fgVars, wCur>>

\* 'remove' (main.py:170-175): dev.close() on the watcher's thread, whatever
\* the foreground is doing with the session.
WatchRemove ==
  /\ wPc = "remove"
  /\ IF wDev # NoDev /\ cpb[wDev] = "open"
       THEN CloseSession(wDev)
       ELSE UNCHANGED <<cpb, link, tmo, repl>>
  /\ wPc' = "poll"
  /\ wDev' = NoDev
  /\ wCp' = FALSE
  /\ UNCHANGED <<slot, named, rootDirs, namePath, fgVars, wTry, wCur>>

\* One round of "for i in range(8)" (main.py:160-169): connect is called for
\* a known device or a CircuitPython board.  CpBoard opens the port; its
\* failure is sys.exit(1) (device.py:286-291), which ends the thread.
WatchAdd ==
  /\ wPc = "add"
  /\ IF wTry >= AddTries
       THEN /\ wPc' = "poll"
            /\ wDev' = NoDev /\ wCp' = FALSE /\ wTry' = 0
            /\ UNCHANGED <<cpb, wCur>>
       ELSE IF wDev # NoDev \/ wCp
         THEN \/ \E s \in Sessions :
                   /\ cpb[s] = "unborn"
                   /\ \A t \in Sessions : t < s => cpb[t] # "unborn"
                   /\ cpb' = [cpb EXCEPT ![s] = "open"]
                   /\ wCur' = s
                   /\ wPc' = "attach"
                   /\ UNCHANGED <<wDev, wTry, wCp>>
              \/ /\ wPc' = "dead"
                 /\ wDev' = NoDev /\ wCp' = FALSE /\ wTry' = 0
                 /\ UNCHANGED <<cpb, wCur>>
         ELSE /\ wTry' = wTry + 1
              /\ UNCHANGED <<cpb, wPc, wDev, wCur, wCp>>
  /\ UNCHANGED <<slot, link, named, tmo, repl, rootDirs, namePath, fgVars>>

\* The constructor's serial I/O on the watcher's thread (device.py:296-337):
\* the ctrl-C writes, the wake loop, listdir and sync_time.  It ends with the
\* session set up, with a DeviceError that connect turns into False
\* (main.py:532-537), or with another exception, which ends the thread.
WatchAttach ==
  /\ wPc = "attach"
  /\ \/ /\ link[wCur] = "up"
        /\ repl' = [repl EXCEPT ![wCur] = "FRIENDLY"]
        /\ rootDirs' = [rootDirs EXCEPT ![wCur] = Field(RootDirsOf(board.names))]
        /\ wPc' = "publish"
        /\ UNCHANGED <<cpb, link, tmo, wDev, wTry, wCur, wCp>>
     \/ /\ link[wCur] = "up"
        /\ Retire(wCur, "gone")
        /\ wPc' = "add"
        /\ wTry' = wTry + 1
        /\ wCur' = NoDev
        /\ UNCHANGED <<rootDirs, wDev, wCp>>
     \/ /\ Retire(wCur, "gone")
        /\ wPc' = "dead"
        /\ wDev' = NoDev /\ wCp' = FALSE /\ wTry' = 0 /\ wCur' = NoDev
        /\ UNCHANGED rootDirs
  /\ UNCHANGED <<slot, named, namePath, fgVars>>

\* connect publishes (main.py:538-539) and the loop is left (main.py:166-167)
WatchPublish ==
  /\ wPc = "publish"
  /\ named' = named \cup {wCur}
  /\ SetDevice(wCur)
  /\ wPc' = "poll"
  /\ wDev' = NoDev /\ wCp' = FALSE /\ wTry' = 0 /\ wCur' = NoDev
  /\ UNCHANGED <<rootDirs, fgVars>>

\* main() has connected to the port of the command line, or has found no
\* board, and autoconnect() has started the thread before the command loop
\* (main.py:571-598).
Connected(s) ==
  /\ slot = s
  /\ cpb = [t \in Sessions |-> IF t = s THEN "open" ELSE "unborn"]
  /\ link = [t \in Sessions |-> "up"]
  /\ named = {s}
  /\ tmo = [t \in Sessions |-> 0]
  /\ repl = [t \in Sessions |-> IF t = s THEN "FRIENDLY" ELSE "UNKNOWN"]
  /\ rootDirs = [t \in Sessions |-> IF t = s THEN Field(RootDirsOf(board.names)) ELSE Unset]
  /\ namePath = [t \in Sessions |-> IF t = s THEN Field(NamePath(board.port)) ELSE Unset]

\* The session of the slot was closed and is still there (device.py:123-127).
ClosedInSlot(s) ==
  /\ slot = s
  /\ cpb = [t \in Sessions |-> IF t = s THEN "closed" ELSE "unborn"]
  /\ link = [t \in Sessions |-> "up"]
  /\ named = {s}
  /\ tmo = [t \in Sessions |-> 0]
  /\ repl = [t \in Sessions |-> "UNKNOWN"]
  /\ rootDirs = [t \in Sessions |-> IF t = s THEN Field(RootDirsOf(board.names)) ELSE Unset]
  /\ namePath = [t \in Sessions |-> IF t = s THEN Field(NamePath(board.port)) ELSE Unset]

NotConnected ==
  /\ slot = NoDev
  /\ cpb = [t \in Sessions |-> "unborn"]
  /\ link = [t \in Sessions |-> "up"]
  /\ named = {}
  /\ tmo = [t \in Sessions |-> 0]
  /\ repl = [t \in Sessions |-> "UNKNOWN"]
  /\ rootDirs = [t \in Sessions |-> Unset]
  /\ namePath = [t \in Sessions |-> Unset]

InitWatch ==
  /\ XferOff
  /\ PathOff
  /\ board = OneBoard
  /\ Connected(1) \/ NotConnected
  /\ cur = NoDev
  /\ pc = "idle"
  /\ caller = "cmd"
  /\ hook = "none"
  /\ evalMode = FALSE
  /\ src = <<>>
  /\ chunk = 1
  /\ updTime = FALSE
  /\ ev = <<>>
  /\ hist = <<>>
  /\ exc = "none"
  /\ orig = "none"
  /\ out = NoOut
  /\ res = NoRes
  /\ attempt = 0
  /\ steps = <<>>
  /\ wPc = "poll" /\ wDev = NoDev /\ wTry = 0 /\ wCur = NoDev /\ wCp = FALSE
  /\ ReplOff
  /\ CmdOff

\* The command loop's remote calls beside the watcher.
NextWatch ==
  \/ \E c \in Calls : StartRemote(c.hook, c.eval, 1)
  \/ Check0
  \/ RawEnter
  \/ RawBanner1
  \/ RawReboot
  \/ RawBanner2
  \/ ExecPrompt
  \/ ExecWrite
  \/ ExecOK
  \/ Xfer
  \/ Follow
  \/ FollowOut
  \/ FollowErr
  \/ ExitRaw
  \/ Return
  \/ Except
  \/ Prompt
  \/ \E s \in Sessions : LinkLoss(s)
  \/ WatchEvent
  \/ WatchRemove
  \/ WatchAdd
  \/ WatchAttach
  \/ WatchPublish

SpecWatch == InitWatch /\ [][NextWatch]_vars

\* ------------------------------------------------------- repl passthrough
\* Repl.run (repl.py:109-182) and its reader thread (repl.py:56-90) on the
\* device of the slot.  The keyboard is read with getch, which blocks until a
\* key is typed.
MaxKeys == 2

\* what getch returns: Control-X, another character, a newline
Keys == {"ctrl-x", "char", "newline"}

replFrame == <<slot, named, rootDirs, namePath, callVars, pc, ev, hist, exc, orig, out,
               res, attempt, steps, chunk, updTime, board, xferVars, pathVars,
               watchVars, cmdVars>>

\* Device.write(buf) from Repl.run (device.py:246-254); a DeviceError is
\* caught at repl.py:176-180 and leads to the join.
DevWrite(what, next) ==
  IF ~CheckCpb(slot)
    THEN fPc' = "join" /\ UNCHANGED <<cpb, link, tmo, repl, sent>>
    ELSE IF link[slot] = "down"
      THEN CloseSession(slot) /\ fPc' = "join" /\ UNCHANGED sent
      ELSE /\ sent' = Append(sent, what)
           /\ fPc' = next
           /\ UNCHANGED <<cpb, link, tmo, repl>>

\* The reader leaves its function: the with block resets the AutoBool
\* (repl.py:38-39, 60).
ReaderEnds ==
  /\ rPc' = "ended"
  /\ running' = FALSE

\* repl.py:130-138: the flags are reset and the thread is started
ReplStart ==
  /\ fPc = "start"
  /\ fPc' = "wait"
  /\ rPc' = "new"
  /\ quitFlag' = FALSE
  /\ running' = FALSE
  /\ UNCHANGED <<cpb, link, tmo, repl, replFrame, quitNoOut, rSave, tmo0, rChar, keys, sent>>

\* "while not self._serial_reader_running(): pass" (repl.py:139-141)
ReplWait ==
  /\ fPc = "wait"
  /\ running
  /\ fPc' = "wake"
  /\ UNCHANGED <<cpb, link, tmo, repl, replFrame, rPc, running, quitFlag, quitNoOut, rSave,
                 tmo0, rChar, keys, sent>>

\* dev.write(b'\r') and the commands of the line (repl.py:143-148)
ReplWake ==
  /\ fPc = "wake"
  /\ DevWrite("cr", IF quitNoOut THEN "join" ELSE "loop")
  /\ UNCHANGED <<replFrame, rPc, running, quitFlag, quitNoOut, rSave, tmo0, rChar, keys>>

\* "while self._serial_reader_running():" (repl.py:150-151)
ReplLoop ==
  /\ fPc = "loop"
  /\ fPc' = IF running THEN "getch" ELSE "join"
  /\ UNCHANGED <<cpb, link, tmo, repl, replFrame, rPc, running, quitFlag, quitNoOut, rSave,
                 tmo0, rChar, keys, sent>>

\* char = getch() and what is done with it (repl.py:152-175)
ReplGetch ==
  /\ fPc = "getch"
  /\ Len(keys) < MaxKeys
  /\ \E k \in Keys :
       /\ keys' = Append(keys, k)
       /\ IF k = "ctrl-x"
            THEN /\ quitFlag' = TRUE
                 /\ DevWrite("space", "sleep")
            ELSE /\ DevWrite(IF k = "newline" THEN "cr" ELSE "char", "loop")
                 /\ UNCHANGED quitFlag
  /\ UNCHANGED <<replFrame, rPc, running, quitNoOut, rSave, tmo0, rChar>>

\* time.sleep(0.5), the newline, continue (repl.py:163-171).  Half a second
\* is enough for every step of the reader but its read, which waits up to a
\* second for a byte.
ReplSleep ==
  /\ fPc = "sleep"
  /\ rPc \in {"read", "ended"}
  /\ fPc' = "loop"
  /\ UNCHANGED <<cpb, link, tmo, repl, replFrame, rPc, running, quitFlag, quitNoOut, rSave,
                 tmo0, rChar, keys, sent>>

\* repl_thread.join() (repl.py:181)
ReplJoin ==
  /\ fPc = "join"
  /\ rPc = "ended"
  /\ fPc' = "done"
  /\ UNCHANGED <<cpb, link, tmo, repl, replFrame, rPc, running, quitFlag, quitNoOut, rSave,
                 tmo0, rChar, keys, sent>>

\* "with self._serial_reader_running:" (repl.py:60)
ReaderEnter ==
  /\ rPc = "new"
  /\ rPc' = "save"
  /\ running' = TRUE
  /\ UNCHANGED <<cpb, link, tmo, repl, replFrame, fPc, quitFlag, quitNoOut, rSave, tmo0, rChar, keys,
                 sent>>

\* save_timeout = dev.timeout; dev.timeout = 1 (repl.py:62-65).  The getter
\* raises DeviceError on a closed device (device.py:345-349), which ends the
\* thread (repl.py:88-90).
ReaderSave ==
  /\ rPc = "save"
  /\ IF CheckCpb(slot)
       THEN /\ rSave' = tmo[slot]
            /\ tmo' = [tmo EXCEPT ![slot] = 1]
            /\ rPc' = "check"
            /\ UNCHANGED running
       ELSE ReaderEnds /\ UNCHANGED <<rSave, tmo>>
  /\ UNCHANGED <<cpb, link, repl, replFrame, fPc, quitFlag, quitNoOut, tmo0, rChar, keys, sent>>

\* "while not self._quit_serial_reader:" (repl.py:66)
ReaderCheck ==
  /\ rPc = "check"
  /\ rPc' = IF quitFlag THEN "restore" ELSE "read"
  /\ UNCHANGED <<cpb, link, tmo, repl, replFrame, fPc, running, quitFlag, quitNoOut, rSave,
                 tmo0, rChar, keys, sent>>

\* the reader's loop goes on at its head whatever was read
AfterReadGoesOn(char, quit) == "check"

\* "if not char: if self._quit_when_no_output: break; continue" and the
\* write of a byte to stdout (repl.py:76-84)
AfterRead(char, quit) == IF ~char /\ quit THEN "restore" ELSE "check"

\* char = dev.read(1) (repl.py:67-86).  Device.read turns a serial error into
\* close() and DeviceError (device.py:143-151); the handlers at repl.py:69 and
\* 73 name serial, which repl.py does not import, so the DeviceError ends the
\* thread as a NameError.  Without a byte the read returns empty after the
\* timeout of 1 s.
ReaderRead ==
  /\ rPc = "read"
  /\ IF ~CheckCpb(slot)
       THEN ReaderEnds /\ UNCHANGED <<cpb, link, tmo, repl, rChar>>
       ELSE IF link[slot] = "down"
         THEN ReaderEnds /\ CloseSession(slot) /\ UNCHANGED rChar
         ELSE /\ \E char \in BOOLEAN :
                   /\ rChar' = IF char THEN "byte" ELSE "empty"
                   /\ rPc' = AfterRead(char, quitNoOut)
              /\ UNCHANGED <<cpb, link, tmo, repl, running>>
  /\ UNCHANGED <<replFrame, fPc, quitFlag, quitNoOut, rSave, tmo0, keys, sent>>

\* the timeout is left as the reader has set it
SetTimeoutNot(t, s, value) == t

\* DeviceSerial.timeout's setter on an open session (device.py:351-356)
SetTimeout(t, s, value) == [t EXCEPT ![s] = value]

\* dev.timeout = save_timeout (repl.py:87); the setter raises DeviceError on
\* a closed device (device.py:351-359).
ReaderRestore ==
  /\ rPc = "restore"
  /\ ReaderEnds
  /\ tmo' = IF CheckCpb(slot) THEN SetTimeout(tmo, slot, rSave) ELSE tmo
  /\ UNCHANGED <<cpb, link, repl, replFrame, fPc, quitFlag, quitNoOut, rSave, tmo0, rChar, keys, sent>>

\* The link of the device is lost while the passthrough runs.
ReplLinkLoss ==
  /\ fPc \notin {"off", "done"}
  /\ LinkLoss(slot)

\* repl is called on the device of the slot, which may have been closed
\* (repl.py:121-128); a line ending in '~' or ';' sets quit_when_no_output.
InitRepl ==
  /\ XferOff
  /\ PathOff
  /\ WatchOff
  /\ CmdOff
  /\ board = OneBoard
  /\ Connected(1) \/ ClosedInSlot(1)
  /\ cur = NoDev
  /\ pc = "off"
  /\ caller = "cmd"
  /\ hook = "none"
  /\ evalMode = FALSE
  /\ src = <<>>
  /\ chunk = 1
  /\ updTime = FALSE
  /\ ev = <<>>
  /\ hist = <<>>
  /\ exc = "none"
  /\ orig = "none"
  /\ out = NoOut
  /\ res = NoRes
  /\ attempt = 0
  /\ steps = <<>>
  /\ fPc = "start" /\ rPc = "off"
  /\ running = FALSE /\ quitFlag = FALSE
  /\ quitNoOut \in BOOLEAN
  /\ rSave = 0 /\ tmo0 = tmo[slot] /\ rChar = "none"
  /\ keys = <<>> /\ sent = <<>>

NextRepl ==
  \/ ReplStart
  \/ ReplWait
  \/ ReplWake
  \/ ReplLoop
  \/ ReplGetch
  \/ ReplSleep
  \/ ReplJoin
  \/ ReaderEnter
  \/ ReaderSave
  \/ ReaderCheck
  \/ ReaderRead
  \/ ReaderRestore
  \/ ReplLinkLoss

SpecRepl == InitRepl /\ [][NextRepl]_vars

\* ------------------------------------------------------------ file transfer
\* binascii.hexlify and unhexlify over ASCII codes: '0'..'9' are 48..57 and
\* 'a'..'f' are 97..102.
HexChar(d) == IF d < 10 THEN 48 + d ELSE 87 + d
IsHex(c) == c \in 48..57 \/ c \in 97..102
HexVal(c) == IF c <= 57 THEN c - 48 ELSE c - 87

Hexlify(bs) ==
  [i \in 1..(2 * Len(bs)) |->
     IF i % 2 = 1 THEN HexChar(bs[(i + 1) \div 2] \div 16)
                  ELSE HexChar(bs[i \div 2] % 16)]

CanUnhexlify(cs) == Len(cs) % 2 = 0 /\ \A i \in 1..Len(cs) : IsHex(cs[i])

Unhexlify(cs) ==
  [i \in 1..(Len(cs) \div 2) |-> 16 * HexVal(cs[2 * i - 1]) + HexVal(cs[2 * i])]

\* The source file of N bytes.
SrcFile(N) == [i \in 1..N |-> 17 * i + 1]

\* bytearray(n)
ByteArray(n) == [i \in 1..n |-> 0]

\* buf[i:j] = data, with Python's clamping of the slice bounds.
SliceInsertFront(buf, i, j, data) == data \o buf

SliceAssign(buf, i, j, data) ==
  LET n  == Len(buf)
      lo == Min(i, n)
      hi == IF Min(j, n) < lo THEN lo ELSE Min(j, n)
  IN  SubSeq(buf, 1, lo) \o data \o SubSeq(buf, hi + 1, n)

Take(q, k) == SubSeq(q, 1, k)
Drop(q, k) == SubSeq(q, k + 1, Len(q))

\* The read timeout a hook can find on the port: None (cpboard.py:68), or
\* the 1 s of the repl command (repl.py:65).
Timeouts == {0, 1}

\* A transfer of N bytes with buffer_size B is about to start on both sides.
XferInit(N, B) ==
  /\ xSrc = SrcFile(N)
  /\ xN = N /\ xB = B
  /\ hPc = "start" /\ dPc = "start"
  /\ hRem = 0 /\ dRem = 0 /\ hWin = 0 /\ dWin = 0
  /\ rBufRem = 0 /\ rIdx = 0 /\ wbuf = <<>>
  /\ toDev = <<>> /\ toHost = <<>> /\ dst = <<>>
  /\ nWin = 0 /\ nAck = 0 /\ nAckRead = 0 /\ nHex = 0
  /\ xTmo \in Timeouts /\ xSave = 0 /\ xTmo0 = xTmo

\* The session and the call around the transfer are not looked into.
CoreOff ==
  /\ slot = NoDev
  /\ cpb = [s \in Sessions |-> "unborn"]
  /\ link = [s \in Sessions |-> "up"]
  /\ named = {}
  /\ tmo = [s \in Sessions |-> 0]
  /\ repl = [s \in Sessions |-> "UNKNOWN"]
  /\ cur = NoDev
  /\ pc = "off"
  /\ caller = "cmd"
  /\ hook = "none"
  /\ evalMode = FALSE
  /\ src = <<>>
  /\ chunk = 1
  /\ updTime = FALSE
  /\ board = NoBoard
  /\ ev = <<>>
  /\ hist = <<>>
  /\ exc = "none"
  /\ orig = "none"
  /\ out = NoOut
  /\ res = NoRes
  /\ attempt = 0
  /\ steps = <<>>
  /\ rootDirs = [s \in Sessions |-> Unset]
  /\ namePath = [s \in Sessions |-> Unset]

MainOff == SideOff /\ CoreOff

Sizes == 0..MaxN
BufferSizes == 2..MaxB

\* ---- host -> device: send_file_to_remote against recv_file_from_host

\* send_file_to_remote: bytes_remaining = filesize, save_timeout and the 2 s
\* timeout, and the loop's test; the timeout is set back behind the loop.
SendToRemoteStart ==
  /\ hPc = "start"
  /\ hRem' = xN
  /\ xSave' = xTmo
  /\ xTmo' = IF xN > 0 THEN XferTimeout ELSE xTmo
  /\ hPc' = IF xN > 0 THEN "ack" ELSE "done"
  /\ UNCHANGED <<mainVars, xTmo0, xDir, xSrc, xN, xB, dPc, dRem, hWin, dWin, rBufRem, rIdx, wbuf,
                 toDev, toHost, dst, nWin, nAck, nAckRead, nHex>>

\* The board has nothing left to do until the host writes again.
RecvFromHostQuiet ==
  \/ dPc \in {"done", "failed"}
  \/ dPc = "read" /\ rBufRem > 0 /\ toDev = <<>>

\* send_file_to_remote: ack = dev.read(1) under the 2 s timeout; anything
\* but the ACK, the timeout's empty read included, raises RuntimeError.
SendToRemoteAck ==
  /\ hPc = "ack"
  /\ IF toHost # <<>>
       THEN /\ toHost' = Tail(toHost)
            /\ IF Head(toHost) = ACK
                 THEN hPc' = "send" /\ nAckRead' = nAckRead + 1
                 ELSE hPc' = "desync" /\ UNCHANGED nAckRead
       ELSE /\ RecvFromHostQuiet
            /\ hPc' = "desync"
            /\ UNCHANGED <<toHost, nAckRead>>
  /\ UNCHANGED <<mainVars, xTmo, xSave, xTmo0, xDir, xSrc, xN, xB, dPc, hRem, dRem, hWin, dWin, rBufRem, rIdx,
                 wbuf, toDev, dst, nWin, nAck, nHex>>

\* send_file_to_remote: one window of min(bytes_remaining, buffer_size // 2)
\* bytes, written as hex, and the loop's test.
SendToRemoteWindow ==
  /\ hPc = "send"
  /\ LET read_size == Min(hRem, xB \div 2)
         buf == SubSeq(xSrc, xN - hRem + 1, xN - hRem + read_size)
     IN  /\ toDev' = toDev \o Hexlify(buf)
         /\ hWin' = read_size
         /\ hRem' = hRem - read_size
         /\ nHex' = nHex + 2 * read_size
         /\ nWin' = nWin + 1
         /\ hPc' = IF hRem - read_size > 0 THEN "ack" ELSE "done"
         /\ xTmo' = IF hRem - read_size > 0 THEN xTmo ELSE xSave
  /\ UNCHANGED <<mainVars, xSave, xTmo0, xDir, xSrc, xN, xB, dPc, dRem, dWin, rBufRem, rIdx, wbuf,
                 toHost, dst, nAck, nAckRead>>

\* recv_file_from_host: bytes_remaining = 2 * filesize and the two buffers.
RecvFromHostStart ==
  /\ dPc = "start"
  /\ dRem' = 2 * xN
  /\ wbuf' = ByteArray(xB)
  /\ dPc' = "loop"
  /\ UNCHANGED <<mainVars, xTmo, xSave, xTmo0, xDir, xSrc, xN, xB, hPc, hRem, hWin, dWin, rBufRem, rIdx,
                 toDev, toHost, dst, nWin, nAck, nAckRead, nHex>>

\* recv_file_from_host: the loop's test, the ACK and the window's size.
RecvFromHostLoop ==
  /\ dPc = "loop"
  /\ IF dRem > 0
       THEN /\ toHost' = Append(toHost, ACK)
            /\ nAck' = nAck + 1
            /\ dWin' = Min(dRem, xB)
            /\ rBufRem' = Min(dRem, xB)
            /\ rIdx' = 0
            /\ dPc' = "read"
       ELSE /\ dPc' = "done"
            /\ UNCHANGED <<toHost, nAck, dWin, rBufRem, rIdx>>
  /\ UNCHANGED <<mainVars, xTmo, xSave, xTmo0, xDir, xSrc, xN, xB, hPc, hRem, dRem, hWin, wbuf, toDev, dst,
                 nWin, nAckRead, nHex>>

\* recv_file_from_host: one sys.stdin.readinto of up to read_size characters.
RecvFromHostRead ==
  /\ dPc = "read"
  /\ rBufRem > 0
  /\ toDev # <<>>
  /\ \E bytes_read \in 1..Min(Len(toDev), dWin) :
       /\ wbuf' = SliceAssign(wbuf, rIdx, bytes_read, Take(toDev, bytes_read))
       /\ rIdx' = rIdx + bytes_read
       /\ rBufRem' = rBufRem - bytes_read
       /\ toDev' = Drop(toDev, bytes_read)
  /\ UNCHANGED <<mainVars, xTmo, xSave, xTmo0, xDir, xSrc, xN, xB, hPc, dPc, hRem, dRem, hWin, dWin, toHost,
                 dst, nWin, nAck, nAckRead, nHex>>

\* recv_file_from_host: the window is unhexlified and written to the file;
\* an exception of unhexlify leaves through the helper's except clause.
RecvFromHostWrite ==
  /\ dPc = "read"
  /\ rBufRem <= 0
  /\ IF CanUnhexlify(Take(wbuf, dWin))
       THEN /\ dst' = dst \o Unhexlify(Take(wbuf, dWin))
            /\ dRem' = dRem - dWin
            /\ dPc' = "loop"
       ELSE /\ dPc' = "failed"
            /\ UNCHANGED <<dst, dRem>>
  /\ UNCHANGED <<mainVars, xTmo, xSave, xTmo0, xDir, xSrc, xN, xB, hPc, hRem, hWin, dWin, rBufRem, rIdx, wbuf,
                 toDev, toHost, nWin, nAck, nAckRead, nHex>>

InitH2D == MainOff /\ PathOff /\ xDir = "h2d" /\ \E N \in Sizes, B \in BufferSizes : XferInit(N, B)

NextH2D ==
  \/ SendToRemoteStart
  \/ SendToRemoteAck
  \/ SendToRemoteWindow
  \/ RecvFromHostStart
  \/ RecvFromHostLoop
  \/ RecvFromHostRead
  \/ RecvFromHostWrite

SpecH2D == InitH2D /\ [][NextH2D]_vars

\* ---- device -> host: recv_file_from_remote against send_file_to_host

\* send_file_to_host: bytes_remaining = filesize and buf_size // 2.
SendToHostStart ==
  /\ dPc = "start"
  /\ dRem' = xN
  /\ dPc' = "loop"
  /\ UNCHANGED <<mainVars, xTmo, xSave, xTmo0, xDir, xSrc, xN, xB, hPc, hRem, hWin, dWin, rBufRem, rIdx, wbuf,
                 toDev, toHost, dst, nWin, nAck, nAckRead, nHex>>

\* send_file_to_host: the loop's test and one window written as hex.
SendToHostWindow ==
  /\ dPc = "loop"
  /\ IF dRem > 0
       THEN LET read_size == Min(dRem, xB \div 2)
                buf == SubSeq(xSrc, xN - dRem + 1, xN - dRem + read_size)
            IN  /\ toHost' = toHost \o Hexlify(buf)
                /\ dWin' = read_size
                /\ dRem' = dRem - read_size
                /\ nHex' = nHex + 2 * read_size
                /\ nWin' = nWin + 1
                /\ dPc' = "ack"
       ELSE /\ dPc' = "done"
            /\ UNCHANGED <<toHost, dWin, dRem, nHex, nWin>>
  /\ UNCHANGED <<mainVars, xTmo, xSave, xTmo0, xDir, xSrc, xN, xB, hPc, hRem, hWin, rBufRem, rIdx, wbuf,
                 toDev, dst, nAck, nAckRead>>

\* send_file_to_host: char = sys.stdin.read(1); the ACK ends the wait, any
\* other character is echoed.
SendToHostAck ==
  /\ dPc = "ack"
  /\ toDev # <<>>
  /\ toDev' = Tail(toDev)
  /\ IF Head(toDev) = ACK
       THEN dPc' = "loop" /\ nAckRead' = nAckRead + 1 /\ UNCHANGED toHost
       ELSE toHost' = Append(toHost, Head(toDev)) /\ UNCHANGED <<dPc, nAckRead>>
  /\ UNCHANGED <<mainVars, xTmo, xSave, xTmo0, xDir, xSrc, xN, xB, hPc, hRem, dRem, hWin, dWin, rBufRem, rIdx,
                 wbuf, dst, nWin, nAck, nHex>>

\* recv_file_from_remote: bytes_remaining = 2 * filesize and write_buf.
RecvFromRemoteStart ==
  /\ hPc = "start"
  /\ hRem' = 2 * xN
  /\ wbuf' = ByteArray(xB)
  /\ hPc' = "loop"
  /\ UNCHANGED <<mainVars, xTmo, xSave, xTmo0, xDir, xSrc, xN, xB, dPc, dRem, hWin, dWin, rBufRem, rIdx,
                 toDev, toHost, dst, nWin, nAck, nAckRead, nHex>>

\* recv_file_from_remote: the loop's test and the window's size.
RecvFromRemoteLoop ==
  /\ hPc = "loop"
  /\ IF hRem > 0
       THEN /\ hWin' = Min(hRem, xB)
            /\ rBufRem' = Min(hRem, xB)
            /\ rIdx' = 0
            /\ hPc' = "read"
       ELSE /\ hPc' = "done"
            /\ UNCHANGED <<hWin, rBufRem, rIdx>>
  /\ UNCHANGED <<mainVars, xTmo, xSave, xTmo0, xDir, xSrc, xN, xB, dPc, hRem, dRem, dWin, wbuf, toDev, toHost,
                 dst, nWin, nAck, nAckRead, nHex>>

\* recv_file_from_remote: one dev.read(buf_remaining); the port has no
\* timeout, so the read returns only with characters.
RecvFromRemoteRead ==
  /\ hPc = "read"
  /\ rBufRem > 0
  /\ toHost # <<>>
  /\ \E bytes_read \in 1..Min(Len(toHost), rBufRem) :
       /\ wbuf' = SliceAssign(wbuf, rIdx, bytes_read, Take(toHost, bytes_read))
       /\ rIdx' = rIdx + bytes_read
       /\ rBufRem' = rBufRem - bytes_read
       /\ toHost' = Drop(toHost, bytes_read)
  /\ UNCHANGED <<mainVars, xTmo, xSave, xTmo0, xDir, xSrc, xN, xB, hPc, dPc, hRem, dRem, hWin, dWin, toDev,
                 dst, nWin, nAck, nAckRead, nHex>>

\* recv_file_from_remote: the window is unhexlified and written, then the
\* ACK; an exception of unhexlify leaves the hook.
RecvFromRemoteWrite ==
  /\ hPc = "read"
  /\ rBufRem <= 0
  /\ IF CanUnhexlify(Take(wbuf, hWin))
       THEN /\ dst' = dst \o Unhexlify(Take(wbuf, hWin))
            /\ toDev' = Append(toDev, ACK)
            /\ nAck' = nAck + 1
            /\ hRem' = hRem - hWin
            /\ hPc' = "loop"
       ELSE /\ hPc' = "error"
            /\ UNCHANGED <<dst, toDev, nAck, hRem>>
  /\ UNCHANGED <<mainVars, xTmo, xSave, xTmo0, xDir, xSrc, xN, xB, dPc, dRem, hWin, dWin, rBufRem, rIdx, wbuf,
                 toHost, nWin, nAckRead, nHex>>

InitD2H == MainOff /\ PathOff /\ xDir = "d2h" /\ \E N \in Sizes, B \in BufferSizes : XferInit(N, B)

NextD2H ==
  \/ SendToHostStart
  \/ SendToHostWindow
  \/ SendToHostAck
  \/ RecvFromRemoteStart
  \/ RecvFromRemoteLoop
  \/ RecvFromRemoteRead
  \/ RecvFromRemoteWrite

SpecD2H == InitD2H /\ [][NextD2H]_vars

\* ---- round trip: cp host -> device, then cp device -> host of the same file

\* The first copy is through on both sides; the second copy starts with the
\* file the board wrote as its source and that file's size as filesize
\* (cp.py:41-70).
CopyBack ==
  /\ xDir = "h2d"
  /\ hPc = "done" /\ dPc = "done"
  /\ toDev = <<>> /\ toHost = <<>>
  /\ xDir' = "d2h"
  /\ xSrc' = dst
  /\ xN' = Len(dst)
  /\ hPc' = "start" /\ dPc' = "start"
  /\ hRem' = 0 /\ dRem' = 0 /\ hWin' = 0 /\ dWin' = 0
  /\ rBufRem' = 0 /\ rIdx' = 0 /\ wbuf' = <<>>
  /\ dst' = <<>>
  /\ nWin' = 0 /\ nAck' = 0 /\ nAckRead' = 0 /\ nHex' = 0
  /\ UNCHANGED <<mainVars, xTmo, xSave, xTmo0, xB, toDev, toHost>>

NextRoundTrip ==
  \/ xDir = "h2d" /\ SendToRemoteStart
  \/ xDir = "h2d" /\ SendToRemoteAck
  \/ xDir = "h2d" /\ SendToRemoteWindow
  \/ xDir = "h2d" /\ RecvFromHostStart
  \/ xDir = "h2d" /\ RecvFromHostLoop
  \/ xDir = "h2d" /\ RecvFromHostRead
  \/ xDir = "h2d" /\ RecvFromHostWrite
  \/ CopyBack
  \/ xDir = "d2h" /\ SendToHostStart
  \/ xDir = "d2h" /\ SendToHostWindow
  \/ xDir = "d2h" /\ SendToHostAck
  \/ xDir = "d2h" /\ RecvFromRemoteStart
  \/ xDir = "d2h" /\ RecvFromRemoteLoop
  \/ xDir = "d2h" /\ RecvFromRemoteRead
  \/ xDir = "d2h" /\ RecvFromRemoteWrite

SpecRoundTrip == InitH2D /\ [][NextRoundTrip]_vars

\* ------------------------------------------------------------------- paths
\* Strings are sequences of characters.
Alphabet == {":", "/", ".", "a", "b"}

Paths == UNION {[1..n -> Alphabet] : n \in 1..MaxPath}

\* str.startswith
StartsWith(s, prefix) ==
  Len(prefix) <= Len(s) /\ SubSeq(s, 1, Len(prefix)) = prefix

\* s.split('/')
RECURSIVE Split(_)
Split(s) ==
  IF \A i \in 1..Len(s) : s[i] # "/"
    THEN <<s>>
    ELSE LET i == CHOOSE k \in 1..Len(s) :
                    s[k] = "/" /\ \A j \in 1..(k - 1) : s[j] # "/"
         IN  <<SubSeq(s, 1, i - 1)>> \o Split(SubSeq(s, i + 1, Len(s)))

\* '/'.join(comps)
RECURSIVE Join(_)
Join(comps) ==
  IF comps = <<>> THEN <<>>
  ELSE IF Len(comps) = 1 THEN comps[1]
  ELSE comps[1] \o <<"/">> \o Join(Tail(comps))

\* The loop of resolve_path over the components (utils.py:65-75).
RECURSIVE NewComps(_, _)
NewComps(comps, new_comps) ==
  IF comps = <<>> THEN new_comps
  ELSE LET comp == Head(comps) IN
       IF comp = <<".">> \/ (comp = <<>> /\ Len(new_comps) > 0)
         THEN NewComps(Tail(comps), new_comps)
       ELSE IF comp = <<".", ".">>
         THEN NewComps(Tail(comps),
                       IF Len(new_comps) > 1
                         THEN SubSeq(new_comps, 1, Len(new_comps) - 1)
                         ELSE new_comps)
       ELSE NewComps(Tail(comps), Append(new_comps, comp))

\* resolve_path(path, cur_dir); '~' is not in the alphabet.
ResolvePath(path, cur_dir) ==
  IF path[1] = ":"
    THEN IF Len(path) > 1 THEN path ELSE <<":", "/">>
    ELSE LET abs == IF path[1] # "/"
                      THEN IF cur_dir[Len(cur_dir)] = "/"
                             THEN cur_dir \o path
                             ELSE cur_dir \o <<"/">> \o path
                      ELSE path
             new_comps == NewComps(Split(abs), <<>>)
         IN  IF Len(new_comps) = 1 /\ new_comps[1] = <<>>
               THEN <<"/">>
               ELSE Join(new_comps)

\* Device.is_root_path
IsRootPath(filename, roots) ==
  \E root_dir \in roots : StartsWith(filename \o <<"/">>, root_dir)

\* get_dev_and_path with the name branch tried before the root branch
GetDevAndPathNameFirst(filename, dev, roots, name) ==
  IF filename[1] = ":"
    THEN [dev |-> dev, path |-> Tail(filename)]
  ELSE IF dev /\ StartsWith(filename \o <<"/">>, NamePath(name))
    THEN LET dev_filename == Drop(filename, Len(NamePath(name)) - 1)
         IN  [dev |-> TRUE,
              path |-> IF dev_filename = <<>> THEN <<"/">> ELSE dev_filename]
  ELSE IF dev /\ IsRootPath(filename, roots)
    THEN [dev |-> TRUE, path |-> filename]
  ELSE [dev |-> FALSE, path |-> filename]

\* get_dev_and_path with the colon left on the path
GetDevAndPathKeepsColon(filename, dev, roots, name) ==
  IF filename[1] = ":"
    THEN [dev |-> dev, path |-> filename]
  ELSE IF dev /\ IsRootPath(filename, roots)
    THEN [dev |-> TRUE, path |-> filename]
  ELSE [dev |-> FALSE, path |-> filename]

\* get_dev_and_path(filename); dev is FALSE for None.
GetDevAndPath(filename, dev, roots, name) ==
  IF filename[1] = ":"
    THEN [dev |-> dev, path |-> Tail(filename)]
  ELSE IF dev /\ IsRootPath(filename, roots)
    THEN [dev |-> TRUE, path |-> filename]
  ELSE IF dev /\ StartsWith(filename \o <<"/">>, NamePath(name))
    THEN LET dev_filename == Drop(filename, Len(NamePath(name)) - 1)
         IN  [dev |-> TRUE,
              path |-> IF dev_filename = <<>> THEN <<"/">> ELSE dev_filename]
  ELSE [dev |-> FALSE, path |-> filename]

\* auto with the helper called on both sides
AutoCallsBoth(r) ==
  <<[side |-> "host", path |-> r.path], [side |-> "device", path |-> r.path]>>

\* The calls auto makes for the router's answer r: func(dev_filename) in the
\* host process, or dev.remote_eval(func, dev_filename).
AutoCalls(r) ==
  IF ~r.dev
    THEN <<[side |-> "host", path |-> r.path]>>
    ELSE <<[side |-> "device", path |-> r.path]>>

\* The directories the shell can be in: the host's, or a remote one after cd.
Cwds == {<<"/">>, <<"/", "a">>, <<":", "/">>, <<":", "/", "a">>}

\* The devices a path can meet: root_dirs from listdir('/'), the name from
\* the port.
RootDirs == {{<<"/", "a", "/">>}, {<<"/", "a", "/">>, <<"/", "b", "/">>}}
DevNames == {<<"b">>, <<"/", "b">>}

PathInit(next) ==
  /\ pPath \in Paths
  /\ pPc = next
  /\ pRoute = <<>> /\ pNorm = <<>> /\ pRan = <<>>

InitRoute ==
  /\ MainOff /\ XferOff
  /\ PathInit("route")
  /\ pCwd = <<"/">>
  /\ pDev \in BOOLEAN
  /\ pRoots \in RootDirs
  /\ pName \in DevNames

\* get_dev_and_path(path), called twice on the same path.
Route ==
  /\ pPc = "route"
  /\ pRoute' = Append(pRoute, GetDevAndPath(pPath, pDev, pRoots, pName))
  /\ pPc' = IF Len(pRoute) = 0 THEN "route" ELSE "auto"
  /\ UNCHANGED <<coreVars, xferVars, sideVars, pPath, pCwd, pDev, pRoots, pName, pNorm, pRan>>

\* auto(func, path)
Auto ==
  /\ pPc = "auto"
  /\ pRan' = pRan \o AutoCalls(GetDevAndPath(pPath, pDev, pRoots, pName))
  /\ pPc' = "done"
  /\ UNCHANGED <<coreVars, xferVars, sideVars, pPath, pCwd, pDev, pRoots, pName, pRoute, pNorm>>

NextRoute == Route \/ Auto

SpecRoute == InitRoute /\ [][NextRoute]_vars

InitResolve ==
  /\ MainOff /\ XferOff
  /\ PathInit("resolve")
  /\ pCwd \in Cwds
  /\ pDev = FALSE /\ pRoots = {} /\ pName = <<>>

\* resolve_path(path, cur_dir), and once more on its result
Resolve ==
  /\ pPc = "resolve"
  /\ pNorm' = Append(pNorm, ResolvePath(IF pNorm = <<>> THEN pPath ELSE pNorm[Len(pNorm)], pCwd))
  /\ pPc' = IF Len(pNorm) = 0 THEN "resolve" ELSE "done"
  /\ UNCHANGED <<coreVars, xferVars, sideVars, pPath, pCwd, pDev, pRoots, pName, pRoute, pRan>>

NextResolve == Resolve

SpecResolve == InitResolve /\ [][NextResolve]_vars

\* =================================================================== claims
\* What the events of the current call are called, in order.
Names(e) == [i \in 1..Len(e) |-> e[i].what]
NotSrc(x) == x.what # "src"
IsSrc(x) == x.what = "src"

RECURSIVE Concat(_)
Concat(ws) == IF ws = <<>> THEN <<>> ELSE Head(ws).b \o Concat(Tail(ws))

HasEvent(x) == \E i \in 1..Len(ev) : ev[i] = x
ExitRawWrite == W("exit_raw", <<CR, STX>>)

C2_LinkLostEmptiesSlot ==
  (pc = "done" /\ caller = "cmd" /\ orig = "SerialException")
    => (cpb[cur] = "closed" /\ slot = NoDev)

\* C3: on any failure inside a remote call the session ends closed and the
\* caller gets the original failure (a lost link as DeviceError), never an
\* error raised during the teardown.
C3_FailureClosesAndKeepsError ==
  (pc = "done" /\ caller = "cmd" /\ orig # "none")
    => /\ cpb[cur] = "closed"
       /\ \/ res = Raise(orig)
          \/ orig = "SerialException" /\ res = Raise("DeviceError")

\* C4: a remote call that succeeds has gone FRIENDLY, RAW, RUNNING,
\* DRAIN_STDOUT, DRAIN_STDERR, RAW and back to FRIENDLY by exit_raw, in this
\* order and with no step left out; the hook ran after the OK handshake and
\* before the stdout drain.
ExpectedSteps(h) ==
  <<"interrupt", "enter_raw", "raw_banner", "soft_reset", "soft_reboot",
    "raw_banner", "prompt", "eot", "OK">>
  \o (IF h = "none" THEN <<>> ELSE <<h>>)
  \o <<"stdout_eot", "stderr_eot", "exit_raw">>

C4_StateOrder ==
  pc = "return" =>
    /\ hist = <<"FRIENDLY", "RAW", "RUNNING", "DRAIN_STDOUT", "DRAIN_STDERR",
                "RAW", "FRIENDLY">>
    /\ Names(SelectSeq(ev, NotSrc)) = ExpectedSteps(hook)
    /\ ev[Len(ev)] = ExitRawWrite

\* C4 witness: a call with a transfer hook is about to return.
C4_Witness == pc = "return" /\ hook = "h2d" /\ HasEvent(X("h2d"))

\* C5: when the OK handshake was received and both terminators were consumed,
\* the session is in RAW and no exit-raw byte has been written.
C5_RawAfterExec ==
  (pc = "exit_raw" /\ exc = "none") =>
    /\ repl[cur] = "RAW"
    /\ ~HasEvent(ExitRawWrite)
    /\ HasEvent(R("OK")) /\ HasEvent(R("stdout_eot")) /\ HasEvent(R("stderr_eot"))

\* C5 witness: follow has returned and exit_raw_repl is still to come.
C5_Witness == pc = "exit_raw" /\ HasEvent(R("stderr_eot")) /\ repl[cur] = "RAW"

\* C6: no awaited step of a remote call waits for the board for ever.
C6_NeverBlocked == pc # "blocked"

\* C7: after the '>' prompt the source goes out as chunks of at most
\* chunk_size bytes that add up to the source, then exactly one 0x04, and only
\* then the handshake is read; without OK neither the hook nor the drain runs.
PromptIdx == CHOOSE i \in 1..Len(ev) : ev[i] = R("prompt")
AfterPrompt == SubSeq(ev, PromptIdx + 1, Len(ev))

C7_ChunksThenOneEot ==
  /\ pc = "exec_ok" =>
       LET t == AfterPrompt
           n == Len(t)
       IN /\ n >= 1
          /\ t[n] = W("eot", <<EOT>>)
          /\ \A k \in 1..(n - 1) :
                t[k].what = "src" /\ Len(t[k].b) >= 1 /\ Len(t[k].b) <= chunk
          /\ Concat(SubSeq(t, 1, n - 1)) = src
          /\ ~HasEvent(R("OK"))
  /\ \A i \in 1..Len(ev) :
       (ev[i].op = "x" \/ ev[i].what \in {"stdout_eot", "stderr_eot"})
         => \E j \in 1..(i - 1) : ev[j] = R("OK")
  /\ \A i \in 1..Len(ev) :
       ev[i].what \in {"src", "eot"} => \E j \in 1..(i - 1) : ev[j] = R("prompt")

\* C7 witness: a source of three bytes went out in chunks of two, and the
\* handshake was refused.
C7_Witness ==
  /\ pc = "except"
  /\ exc = "CpBoardError"
  /\ Len(src) = 3 /\ chunk = 2
  /\ ev[Len(ev)] = W("eot", <<EOT>>)
  /\ ev[Len(ev) - 1] = W("src", <<103>>)

\* C8: remote_eval never returns a value parsed from stdout when the
\* snippet's stderr was not empty; it raises a RemoteException.
C8_StderrRaises ==
  (pc = "done" /\ caller = "cmd" /\ evalMode /\ orig = "none" /\ out.stderr = "traceback")
    => res = Raise("RemoteException")

\* C9: in a host -> device transfer of N bytes with buffer size B >= 2, even
\* or odd, the host writes a window only after reading an ACK, the hex
\* characters it writes for a window are as many as the board expects for
\* that window, the exchange never desynchronises, and when both sides are
\* through the windows equal the ACKs, 2N hex characters were written and the
\* destination holds the source's bytes.
C9_WindowsMatchAcks ==
  hPc \in {"start", "ack", "send", "done", "desync"} /\ dPc \in {"start", "loop", "read", "done", "failed"}
    => /\ nWin <= nAckRead
       /\ hPc # "desync"
       /\ dPc # "failed"
       /\ (nWin > 0 /\ nWin = nAck) => 2 * hWin = dWin
       /\ (hPc = "done" /\ dPc = "done")
            => nWin = nAck /\ nHex = 2 * xN /\ dst = SrcFile(xN)

\* C10: in a device -> host transfer of N bytes the host reads, for each
\* window the board writes, exactly twice the window's bytes in hex
\* characters and then writes one ACK, and when both sides are through
\* the destination holds exactly the N bytes of the source.
C10_HostReadsTwiceWindow ==
  hPc \in {"start", "loop", "read", "done", "error"} /\ dPc \in {"start", "loop", "ack", "done"}
    => /\ nAck <= nWin
       /\ hPc # "error"
       /\ (hPc = "read" /\ nWin = nAck + 1) => hWin = 2 * dWin
       /\ (hPc = "done" /\ dPc = "done")
            => nAck = nWin /\ Len(dst) = xN /\ dst = SrcFile(xN)

\* C11: a file copied host -> device and then device -> host comes back as
\* the original bytes, each side having written as many file bytes as the
\* file has, for every size and however the link splits a window into
\* partial reads: write_buf holds the window as it was sent, so unhexlify
\* never fails on it.
C11_RoundTripPreservesBytes ==
  xDir \in {"h2d", "d2h"} =>
    /\ hPc # "error" /\ dPc # "failed"
    /\ (xDir = "d2h") => xSrc = SrcFile(xN)
    /\ (hPc = "done" /\ dPc = "done") => dst = SrcFile(xN) /\ Len(dst) = xN

\* C11 witness: the file of three bytes is back on the host after two windows
\* each way, and the last window was reassembled from partial reads.
C11_Witness ==
  /\ xDir = "d2h" /\ hPc = "done" /\ dPc = "done"
  /\ xN = 3 /\ xB = 4 /\ nWin = 2
  /\ dst = SrcFile(3)
  /\ Len(wbuf) > xB

\* C12: both transfer hooks run under the 2 s read timeout and leave the
\* port with the timeout it had before, whether they return or raise.
HookActive == hPc \in {"ack", "send", "loop", "read"}
HookLeft == hPc \in {"done", "desync", "error"}

C12_TimeoutSetAndRestored ==
  /\ HookActive => xTmo = XferTimeout
  /\ HookLeft => xTmo = xTmo0

\* A command's remote call is over, and it had started to fail as o.
FailedAs(o) == pc = "done" /\ caller = "cmd" /\ orig = o

\* C13: when the board stops sending ACKs during a host -> device copy, the
\* call fails with the transfer's desync error, the session is closed and
\* the slot is empty, so that the next listdir finds no device.
C13_DesyncEmptiesSlot ==
  FailedAs("RuntimeError") =>
    /\ res = Raise("RuntimeError")
    /\ cpb[cur] = "closed"
    /\ slot = NoDev

C15_RouterCases ==
  (pDev /\ pRoute # <<>>) =>
    LET r == pRoute[1]
        inRoot == \E d \in pRoots : StartsWith(pPath \o <<"/">>, d)
        atName == StartsWith(pPath \o <<"/">>, NamePath(pName))
    IN  /\ CASE pPath[1] = ":" -> r.dev /\ <<":">> \o r.path = pPath
              [] pPath[1] # ":" /\ inRoot -> r.dev /\ r.path = pPath
              [] pPath[1] # ":" /\ ~inRoot /\ atName ->
                   /\ r.dev
                   /\ IF pPath \o <<"/">> = NamePath(pName)
                        THEN r.path = <<"/">>
                        ELSE <<"/">> \o pName \o r.path = pPath
              [] OTHER -> ~r.dev /\ r.path = pPath
        /\ pPath = <<"/", "a">> => r = [dev |-> TRUE, path |-> pPath]
        /\ pPath = <<"/", "a", "b">> => r = [dev |-> FALSE, path |-> pPath]

\* C15 witness: a path that is within a root directory and also begins with
\* name_path was routed as the root directory's.
C15_Witness ==
  /\ pDev /\ pRoute # <<>>
  /\ pPath = <<"/", "b", "/", "a">>
  /\ pName = <<"b">>
  /\ <<"/", "b", "/">> \in pRoots
  /\ pRoute[1] = [dev |-> TRUE, path |-> pPath]

C17_ResolveIdempotent ==
  /\ Len(pNorm) = 2 => pNorm[2] = pNorm[1]
  /\ \A cwd \in Cwds :
       /\ ResolvePath(<<"a", "/", ".", "/", "b">>, cwd) = ResolvePath(<<"a", "/", "b">>, cwd)
       /\ ResolvePath(<<"a", "/", "/", "b">>, cwd) = ResolvePath(<<"a", "/", "b">>, cwd)
       /\ ResolvePath(<<"a", "/", "b", "/">>, cwd) = ResolvePath(<<"a", "/", "b">>, cwd)

\* C18: the result of resolve_path has no '.' segment, no '..' segment and
\* no empty segment between two '/', whatever the shape of the input, and
\* '/' comes back as '/'.  The segments of a remote path are those behind
\* its colon.
Segments(r) == Split(IF r[1] = ":" THEN Tail(r) ELSE r)

C18_NoDotSegments ==
  /\ pNorm # <<>> =>
       LET comps == Segments(pNorm[1])
       IN  \A i \in 1..Len(comps) :
             /\ comps[i] # <<".">>
             /\ comps[i] # <<".", ".">>
             /\ (1 < i /\ i < Len(comps)) => comps[i] # <<>>
  /\ (pNorm # <<>> /\ pPath = <<"/">>) => pNorm[1] = <<"/">>

\* C19: auto makes exactly one call: the helper in the host process when the
\* router gives no device, remote_eval on the device with the device's path
\* when it gives one; never both and never none.
C19_AutoOneSide ==
  pPc = "done" =>
    /\ Len(pRan) = 1
    /\ pRan[1].side = (IF pRoute[1].dev THEN "device" ELSE "host")
    /\ pRan[1].path = pRoute[1].path

\* C19 witness: a path within a root directory went to the device.
C19_Witness ==
  /\ pPc = "done"
  /\ pPath = <<"/", "a", "/", "b">>
  /\ pRan = <<[side |-> "device", path |-> pPath]>>

\* C20: connect puts a new session into the slot only when the port was
\* opened, the friendly prompt was seen, listdir('/') has returned the root
\* directories and, with upd_time, the time was set, in this order; while a
\* connect is under way and when it fails, the slot keeps what it held and
\* the session it held is not closed.
StepsOfConnect ==
  <<"open", "prompt", "listdir">> \o (IF updTime THEN <<"time">> ELSE <<>>)

C20_PublishLast ==
  [][/\ slot' # slot =>
          pc = "c_publish" /\ slot' = cur /\ cpb[cur] = "open" /\ steps = StepsOfConnect
     /\ (caller # "cmd" /\ pc # "c_publish") =>
          slot' = slot /\ (slot # NoDev => cpb'[slot] = cpb[slot])]_vars

\* C20 witness: a second connect with upd_time has gone through its four
\* steps and has replaced the session of the first.
C20_Witness ==
  /\ pc = "done"
  /\ caller = "synctime"
  /\ res = Val("True")
  /\ slot = cur
  /\ steps = <<"open", "prompt", "listdir", "time">>
  /\ \E s \in named : s # slot /\ cpb[s] = "closed"

\* C21: during attach the wake step is tried at most 2 times, stops at the
\* first attempt that sees the prompt, and the attach fails when no attempt
\* sees it.
C21_AtMostTwoWakes == caller = "setup" => attempt <= 2

\* C21, with the number of attempts the loop makes: at most 20 attempts; the
\* attempt that sees the prompt ends the loop; the attach fails with a
\* DeviceError (connect returns False) exactly when the 20th attempt has
\* ended without the prompt.
C21_AtMostTwentyWakes ==
  [][pc = "c_wake" =>
       /\ attempt < 20
       /\ steps' # steps => (pc' = "check0" /\ steps' = Append(steps, "prompt"))
       /\ attempt' # attempt =>
            \/ attempt' = attempt + 1 /\ (pc' = "done" <=> attempt' = 20)
            \/ attempt' = 0 /\ pc' = "check0"
       /\ (pc' = "done" /\ link[cur] = "up") =>
            (attempt' = 20 /\ res' = Val("False"))]_vars

\* C21 witness: twenty attempts have gone by without the prompt and connect
\* has returned False.
C21_Witness ==
  /\ pc = "done"
  /\ caller = "setup"
  /\ attempt = 20
  /\ res = Val("False")
  /\ steps = <<"open">>

\* C22: once a session is published, its root_dirs is the list of '/ni/' for
\* the names n1..nk that listdir('/') returned and its name_path is
\* '/<port name>/', and no step changes either of them afterwards.
C22_RootDirsAndNamePathFixed ==
  [][\A s \in named' :
       /\ rootDirs'[s].set /\ namePath'[s].set
       /\ Len(rootDirs'[s].v) = Len(board.names)
       /\ \A i \in 1..Len(board.names) :
            rootDirs'[s].v[i] = <<"/">> \o board.names[i] \o <<"/">>
       /\ namePath'[s].v = <<"/">> \o board.port \o <<"/">>
       /\ s \in named => (rootDirs'[s] = rootDirs[s] /\ namePath'[s] = namePath[s])]_vars

\* C22 witness: a published session whose remote call has failed and closed
\* it still has the two fields it was published with.
C22_Witness ==
  /\ pc = "done"
  /\ caller = "cmd"
  /\ res.kind = "raise"
  /\ slot # NoDev
  /\ cpb[slot] = "closed"
  /\ rootDirs[slot].v = << <<"/", "a", "/">>, <<"/", "b", "/">> >>
  /\ namePath[slot].v = <<"/", "/", "b", "/">>

\* C23: the hot-plug watcher does no serial I/O: no step of the watcher opens
\* a port, runs an attach on its thread, or closes a session; so a session
\* the foreground is using in a remote call is never closed by the watcher.
InCall == pc \notin {"idle", "done", "blocked"}

C23_WatcherNoSerialIO ==
  [][wPc' # wPc =>
       /\ wPc' \notin {"attach", "publish"}
       /\ cpb' = cpb
       /\ slot' = slot
       /\ (InCall /\ cur # NoDev) => cpb'[cur] = cpb[cur]]_vars

\* C24: when the watcher has seen the remove event of the current session's
\* port, the session's serial link is closed and the current-device slot is
\* empty, so that the router finds no device.
C24_DetachClearsSlot ==
  [][(wPc = "remove" /\ wPc' = "poll" /\ wDev # NoDev) =>
       (cpb'[wDev] # "open" /\ slot' = NoDev)]_vars

\* C25: once the user has typed Control-X in the repl passthrough (the stop
\* flag is set and a space is written), Repl.run does not need another key:
\* it is never back in getch waiting for one.
C25_NoKeyAfterControlX == ~(quitFlag /\ fPc = "getch")

\* ------------------------------------------------------------------- rsync
\* utils.listdir_stat(dirname): the names in a directory, or None when the
\* directory does not exist.  The top directory is the empty path.
IsDir(fs, root, dir) == IF dir = <<>> THEN root ELSE fs[dir] = Dir

ListdirStat(fs, root, dir) ==
  [ok    |-> IsDir(fs, root, dir),
   names |-> IF IsDir(fs, root, dir)
             THEN {n \in TreeNames \cup SubNames :
                     /\ dir \o <<n>> \in TreePaths
                     /\ fs[dir \o <<n>>] # Absent}
             ELSE {}]

\* cp(src_filename, dst_filename): the destination gets the source's bytes
\* and is written now.
Cp(S, st, q) ==
  [st EXCEPT !.fs[q] = File(S[q].c, NowTime),
             !.ops = @ \cup {[op |-> "cp", q |-> q]}]

\* rm(dst_filename, recursive=True, force=True): the name and all below it.
Rm(st, q) ==
  [st EXCEPT !.fs = [r \in TreePaths |->
                       IF r = q \/ (Len(r) = 2 /\ <<r[1]>> = q) THEN Absent ELSE @[r]],
             !.ops = @ \cup {[op |-> "rm", q |-> q]}]

\* mkdir(dst_dir), below a parent that exists.
Mkdir(st, dir) ==
  [st EXCEPT !.fs = IF dir = <<>> THEN @ ELSE [@ EXCEPT ![dir] = Dir],
             !.root = IF dir = <<>> THEN TRUE ELSE @,
             !.ops = @ \cup {[op |-> "mkdir", q |-> dir]}]

\* make_dir(dst_dir, dry_run, print_func, recursed): a dry run reports and
\* makes nothing.
MakeDir(st, dir, dry) == IF dry THEN st ELSE Mkdir(st, dir)

\* "if not dry_run: cp(...)" of the two copy sites.
CopyAlways(S, st, q, dry) == Cp(S, st, q)

Copy(S, st, q, dry) == IF dry THEN st ELSE Cp(S, st, q)

\* "if mtime_src > mtime_dst"
Stale(ms, md) == ms > md

RECURSIVE Rsync(_, _, _, _, _)
RECURSIVE ToAdd(_, _, _, _, _, _)
RECURSIVE ToUpd(_, _, _, _, _, _, _)
RECURSIVE ToDel(_, _, _, _)

\* the loop over to_add: a file is copied, a directory is descended into
ToAdd(S, st, dir, names, mirror, dry) ==
  IF names = {} THEN st
  ELSE LET n == CHOOSE x \in names : TRUE
           q == dir \o <<n>>
           st1 == IF S[q] = Dir
                  THEN Rsync(S, st, q, mirror, dry)
                  ELSE Copy(S, st, q, dry)
       IN ToAdd(S, st1, dir, names \ {n}, mirror, dry)

\* the loop over to_del, run under "if mirror"
ToDel(st, dir, names, dry) ==
  IF names = {} THEN st
  ELSE LET n == CHOOSE x \in names : TRUE
           st1 == IF dry THEN st ELSE Rm(st, dir \o <<n>>)
       IN ToDel(st1, dir, names \ {n}, dry)

\* the loop over to_upd, with the destination's stats of the listing: two
\* directories are descended into, two files are compared by mtime, a file
\* against a directory is left alone
ToUpd(S, D, st, dir, names, mirror, dry) ==
  IF names = {} THEN st
  ELSE LET n == CHOOSE x \in names : TRUE
           q == dir \o <<n>>
           st1 == IF S[q] = Dir
                  THEN IF D[q] = Dir THEN Rsync(S, st, q, mirror, dry) ELSE st
                  ELSE IF D[q] = Dir THEN st
                       ELSE IF Stale(S[q].m, D[q].m) THEN Copy(S, st, q, dry)
                            ELSE st
       IN ToUpd(S, D, st1, dir, names \ {n}, mirror, dry)

\* "if mirror:" before the loop over to_del
MirrorAlways(mirror) == TRUE

Mirror(mirror) == mirror

\* rsync(src_dir, dst_dir, mirror, dry_run, ...) once both listings are made
Rsync(S, st, dir, mirror, dry) ==
  LET src_files == ListdirStat(S, TRUE, dir)
      dst_files == ListdirStat(st.fs, st.root, dir)
      d_dst     == st.fs
      st0       == IF dst_files.ok THEN st ELSE MakeDir(st, dir, dry)
      to_add    == src_files.names \ dst_files.names
      to_del    == dst_files.names \ src_files.names
      to_upd    == dst_files.names \cap src_files.names
      st1       == ToAdd(S, st0, dir, to_add, mirror, dry)
      st2       == IF Mirror(mirror) THEN ToDel(st1, dir, to_del, dry) ELSE st1
  IN IF ~src_files.ok THEN st
     ELSE ToUpd(S, d_dst, st2, dir, to_upd, mirror, dry)

\* The command: listdir_stat is defined with (dirname, show_hidden=True)
\* (utils.py:308) and rsync calls it with (src_dir, time_offset,
\* show_hidden=sync_hidden) (rsync.py:46-47), so the first listing raises
\* TypeError and the command ends there; onecmd_exec prints the error.  The
\* same call with the parameters of listdir_lstat (utils.py:293) is accepted.
RsyncRun ==
  /\ rsPc = "start"
  /\ rsPc' = "done"
  /\ IF rsList
     THEN LET st == Rsync(rsSrc, [fs |-> rsDst, root |-> rsRoot, ops |-> {}],
                          <<>>, rsMirror, rsDry)
          IN /\ rsDst' = st.fs
             /\ rsRoot' = st.root
             /\ rsOps' = st.ops
             /\ rsExc' = "none"
     ELSE /\ rsExc' = "TypeError"
          /\ UNCHANGED <<rsDst, rsRoot, rsOps>>
  /\ UNCHANGED <<rsSrc, rsDst0, rsRoot0, rsMirror, rsDry, rsList>>
  /\ UNCHANGED <<coreVars, pathVars, xferVars, watchVars, replVars, evalVars, redirVars, ruVars>>

\* the shell takes the next command
RsyncNext ==
  /\ rsPc = "done"
  /\ rsPc' = "start"
  /\ rsDst0' = rsDst
  /\ rsRoot0' = rsRoot
  /\ rsOps' = {}
  /\ rsExc' = "none"
  /\ \E m \in BOOLEAN, d \in BOOLEAN : rsMirror' = m /\ rsDry' = d
  /\ UNCHANGED <<rsSrc, rsDst, rsRoot, rsList>>
  /\ UNCHANGED <<coreVars, pathVars, xferVars, watchVars, replVars, evalVars, redirVars, ruVars>>

\* rsync SRC_DIR DEST_DIR between two directories of the host; SRC_DIR is a
\* directory, DEST_DIR is one or does not exist below an existing parent.
RsyncArgs ==
  /\ CoreOff
  /\ WatchOff
  /\ ReplOff
  /\ PathOff
  /\ XferOff
  /\ EvalOff
  /\ RedirOff
  /\ RuOff
  /\ rsSrc \in Trees
  /\ rsDst \in Trees
  /\ rsRoot \in BOOLEAN
  /\ (~rsRoot => rsDst = EmptyTree)
  /\ rsDst0 = rsDst
  /\ rsRoot0 = rsRoot
  /\ rsMirror \in BOOLEAN
  /\ rsDry \in BOOLEAN
  /\ rsPc = "start"
  /\ rsOps = {}
  /\ rsExc = "none"

\* the command with listdir_stat as utils.py:308 defines it
InitRsync == RsyncArgs /\ rsList = FALSE

\* the command with either parameter list of the listing
InitRsyncListing == RsyncArgs /\ rsList \in BOOLEAN

NextRsync == RsyncRun \/ RsyncNext

SpecRsync == InitRsync /\ [][NextRsync]_vars

SpecRsyncListing == InitRsyncListing /\ [][NextRsync]_vars

\* C26: when rsync with mirror and without dry_run has ended, the destination
\* exists and lists what the source lists: the same names, of the same kind,
\* every file with the source's content.
SameListing(S, D) == \A q \in TreePaths : S[q].t = D[q].t /\ S[q].c = D[q].c

C26_MirrorMakesEqual ==
  (rsPc = "done" /\ rsMirror /\ ~rsDry) => (rsRoot /\ SameListing(rsSrc, rsDst))

\* C27: a dry run of rsync changes nothing: the command makes no call of cp,
\* rm or mkdir at any depth, and the source tree, the destination tree and
\* the destination directory are after it what they were before it.
C27_DryRunChangesNothing ==
  [][(rsPc = "start" /\ rsDry) =>
       /\ rsOps' = {}
       /\ rsSrc' = rsSrc
       /\ rsDst' = rsDst
       /\ rsRoot' = rsRoot]_vars

\* a dry run that has listed both trees: a directory with a file in it to
\* add, a name to remove under --mirror
C27_Witness ==
  /\ rsPc = "done" /\ rsDry /\ rsMirror /\ rsList /\ rsExc = "none"
  /\ rsSrc[<<"x">>] = Dir /\ rsSrc[<<"x", "p">>] # Absent
  /\ rsSrc[<<"y">>] = Absent
  /\ rsDst[<<"x">>] = Absent /\ rsDst[<<"y">>] # Absent
  /\ rsOps = {}

\* C28: without --mirror rsync removes nothing: every name of the destination
\* is still there after the command and is of the kind it was, the
\* destination directory still exists, and no call of rm was made.
C28_NoMirrorRemovesNothing ==
  [][(rsPc = "start" /\ ~rsMirror) =>
       /\ \A q \in TreePaths : rsDst[q] # Absent => rsDst'[q].t = rsDst[q].t
       /\ rsRoot => rsRoot'
       /\ \A o \in rsOps' : o.op # "rm"]_vars

\* a run without --mirror that has copied, with a name in the destination
\* that the source does not have
C28_Witness ==
  /\ rsPc = "done" /\ ~rsMirror /\ ~rsDry /\ rsList /\ rsExc = "none"
  /\ rsSrc[<<"y">>] = Absent /\ rsDst0[<<"y">>] = Dir /\ rsDst0[<<"y", "p">>] # Absent
  /\ rsDst[<<"y", "p">>] = rsDst0[<<"y", "p">>]
  /\ [op |-> "cp", q |-> <<"x">>] \in rsOps

\* A name rsync compares: it is in both listings of a directory that the
\* command reaches, which is the top directory or a directory of both trees.
InBoth(q) ==
  /\ rsRoot0
  /\ rsSrc[q] # Absent /\ rsDst0[q] # Absent
  /\ Len(q) = 2 => (rsSrc[<<q[1]>>] = Dir /\ rsDst0[<<q[1]>>] = Dir)

Copied(q) == [op |-> "cp", q |-> q] \in rsOps

\* C34: after an rsync that is not a dry run, a regular file that is in both
\* the source and the destination has been copied if and only if the source's
\* mtime is strictly greater than the destination's; a destination at least
\* as new is what it was; and a name that is a directory on one side and a
\* file on the other is not copied and keeps its kind.
C34_CopiedIffNewer ==
  (rsPc = "done" /\ ~rsDry) =>
    \A q \in TreePaths : InBoth(q) =>
      /\ (rsSrc[q].t = "f" /\ rsDst0[q].t = "f") =>
           /\ Copied(q) <=> rsSrc[q].m > rsDst0[q].m
           /\ rsSrc[q].m > rsDst0[q].m => rsDst[q] = File(rsSrc[q].c, NowTime)
           /\ rsSrc[q].m <= rsDst0[q].m => rsDst[q] = rsDst0[q]
      /\ rsSrc[q].t # rsDst0[q].t =>
           /\ ~Copied(q)
           /\ rsDst[q].t = rsDst0[q].t

\* ------------------------------------------------------------- remote_eval
\* The values handed to a helper: numbers, booleans, None, strings, and
\* lists, tuples and dicts of these.  A text is a sequence of tokens.
MaxItems == 2

Atoms ==
  {Atom("int", <<d>>) : d \in {"0", "1"}}
  \cup {Atom("bool", <<b>>) : b \in {"True", "False"}}
  \cup {Atom("none", <<"None">>)}
  \cup {Atom("str", t) : t \in {<<>>, <<"a">>, <<"1">>, <<"None">>}}

ItemSeqs == UNION {[1..n -> Atoms] : n \in 0..MaxItems}

Values ==
  {[k |-> a.k, v |-> a.v, items |-> <<>>] : a \in Atoms}
  \cup {[k |-> c, v |-> <<>>, items |-> i] : c \in {"list", "tuple"}, i \in ItemSeqs}
  \cup {[k |-> "dict", v |-> <<>>, items |-> i] : i \in {j \in ItemSeqs : Len(j) \in {0, 2}}}

\* repr of an atom: a string is put in quotes
ReprAtom(a) == IF a.k = "str" THEN <<"'">> \o a.v \o <<"'">> ELSE a.v

\* str of an atom: a string is its bare text
StrAtom(a) == a.v

RECURSIVE JoinRepr(_, _)
JoinRepr(items, n) ==
  IF n = 0 THEN <<>>
  ELSE IF n = 1 THEN ReprAtom(items[1])
  ELSE JoinRepr(items, n - 1) \o <<",">> \o ReprAtom(items[n])

\* repr(v)
Repr(v) ==
  CASE v.k = "list"  -> <<"[">> \o JoinRepr(v.items, Len(v.items)) \o <<"]">>
    [] v.k = "tuple" -> <<"(">> \o JoinRepr(v.items, Len(v.items))
                        \o (IF Len(v.items) = 1 THEN <<",">> ELSE <<>>) \o <<")">>
    [] v.k = "dict"  -> IF v.items = <<>> THEN <<"{", "}">>
                        ELSE <<"{">> \o ReprAtom(v.items[1]) \o <<":">>
                             \o ReprAtom(v.items[2]) \o <<"}">>
    [] OTHER         -> ReprAtom(v)

\* str(v), what print writes: only a string itself loses its quotes
StrBare(v) ==
  IF v.k \in {"list", "tuple", "dict"}
  THEN SelectSeq(Repr(v), LAMBDA t : t # "'")
  ELSE StrAtom(v)

Str(v) == IF v.k = "str" THEN StrAtom(v) ELSE Repr(v)

\* remote_repr(i): the repr, or None for an object without a literal
RemoteRepr(v) == IF Repr(v) # <<>> /\ Head(Repr(v)) = "<" THEN <<"None">> ELSE Repr(v)

\* eval(text): the value the text is the literal of; a text that is no
\* literal of these values raises (SyntaxError for the empty text, NameError
\* for a bare name).
EvalText(text) ==
  LET m == {v \in Values : Repr(v) = text}
  IN IF m # {} THEN Val(CHOOSE v \in m : TRUE)
     ELSE IF text = <<>> THEN Raise("SyntaxError") ELSE Raise("NameError")

\* Device.remote builds the call "output = identity(<args>)".
EvalShip ==
  /\ evPc = "start"
  /\ evPc' = "shipped"
  /\ evArgs' = RemoteRepr(evV)
  /\ UNCHANGED <<evV, evOut, evStdout, evRes>>
  /\ UNCHANGED <<coreVars, pathVars, xferVars, watchVars, replVars, syncVars, redirVars, ruVars>>

\* The board reads the literal and the helper returns it.
EvalRun ==
  /\ evPc = "shipped"
  /\ EvalText(evArgs).kind = "value"
  /\ evPc' = "ran"
  /\ evOut' = EvalText(evArgs).v
  /\ UNCHANGED <<evV, evArgs, evStdout, evRes>>
  /\ UNCHANGED <<coreVars, pathVars, xferVars, watchVars, replVars, syncVars, redirVars, ruVars>>

\* The trailer: print("None") when output is None, else print(output).
EvalPrint ==
  /\ evPc = "ran"
  /\ evPc' = "printed"
  /\ evStdout' = IF evOut = NoneV THEN <<"None">> ELSE Str(evOut)
  /\ UNCHANGED <<evV, evArgs, evOut, evRes>>
  /\ UNCHANGED <<coreVars, pathVars, xferVars, watchVars, replVars, syncVars, redirVars, ruVars>>

\* remote_eval: eval of what follow() returned as stdout.
EvalHost ==
  /\ evPc = "printed"
  /\ evPc' = "done"
  /\ evRes' = EvalText(evStdout)
  /\ UNCHANGED <<evV, evArgs, evOut, evStdout>>
  /\ UNCHANGED <<coreVars, pathVars, xferVars, watchVars, replVars, syncVars, redirVars, ruVars>>

InitEval ==
  /\ CoreOff
  /\ WatchOff
  /\ ReplOff
  /\ PathOff
  /\ XferOff
  /\ SyncOff
  /\ RedirOff
  /\ RuOff
  /\ evV \in Values
  /\ evPc = "start"
  /\ evArgs = <<>>
  /\ evOut = NoneV
  /\ evStdout = <<>>
  /\ evRes = NoRes

NextEval == EvalShip \/ EvalRun \/ EvalPrint \/ EvalHost

SpecEval == InitEval /\ [][NextEval]_vars

\* C29: remote_eval of a helper that returns its argument v gives back a
\* value equal to v, for every v with an eval-safe repr: strings, numbers,
\* booleans, None, and tuples, lists and dicts of these.
C29_IdentityRoundTrip == evPc = "done" => evRes = Val(evV)

\* C29 as the code has it: every such v that is not itself a string comes
\* back equal; a string comes back as what its text evaluates to, or as the
\* exception that evaluating its text raises.
C29_NonStringRoundTrip ==
  evPc = "done" =>
    IF evV.k # "str" THEN evRes = Val(evV) ELSE evRes = EvalText(evV.v)

\* a list of two different strings has come back
C29_Witness ==
  /\ evPc = "done"
  /\ evV.k = "list" /\ Len(evV.items) = 2
  /\ evV.items[1] = Atom("str", <<"a">>) /\ evV.items[2] = Atom("str", <<"1">>)
  /\ evStdout = <<"[", "'", "a", "'", ",", "'", "1", "'", "]">>
  /\ evRes = Val(evV)

\* ---------------------------------------------------------------- redirect
\* "cmd > :/dir/file": line_to_args looks at the directory of the file with
\* utils.auto(utils.get_mode, dirname) before the command is created
\* (cmdshell.py:294-298, 451-464); postcmd copies the collected output to the
\* device when the line is over (cmdshell.py:363-379).
ModeKinds == {"dir", "file", "none"}

restOfRedirect ==
  <<coreVars, pathVars, xferVars, watchVars, replVars, syncVars, evalVars, ruVars>>

\* utils.mode_isdir(rmode); get_mode gives 0 for a name that does not exist
ModeIsAny(m) == TRUE

ModeIsDir(m) == m = "dir"

\* line_to_args has split the line and resolved the file name
RedirectParse ==
  /\ rdPc = "line"
  /\ pc = "idle"
  /\ rdPc' = "mode"
  /\ rdCalls' = Append(rdCalls, "get_mode")
  /\ UNCHANGED <<rdParent, rdRan, rdErr>>
  /\ UNCHANGED restOfRedirect

\* utils.auto -> dev.remote_eval(get_mode, dirname)
RedirectMode ==
  /\ rdPc = "mode"
  /\ StartRemote("none", TRUE, 1)

\* the mode is back, or the call has raised: CmdShellError when the mode is
\* not that of a directory; the exception leaves default() before
\* Command.create and run (cmdshell.py:451-464)
RedirectChecked ==
  /\ rdPc = "mode"
  /\ pc = "done"
  /\ IF res.kind = "raise"
       THEN rdErr' = res.v /\ rdPc' = "post"
       ELSE IF ModeIsDir(rdParent)
              THEN rdErr' = "none" /\ rdPc' = "run"
              ELSE rdErr' = "CmdShellError" /\ rdPc' = "post"
  /\ UNCHANGED <<rdParent, rdRan, rdCalls>>
  /\ UNCHANGED restOfRedirect

\* cmdinstance.run(args[1:]) of a command that writes to self.stdout
RedirectRun ==
  /\ rdPc = "run"
  /\ rdRan' = TRUE
  /\ rdPc' = "post"
  /\ UNCHANGED <<rdParent, rdCalls, rdErr>>
  /\ UNCHANGED restOfRedirect

\* postcmd: with stdout redirected and redirect_dev set, the output is sent
\* with recv_file_from_host / send_file_to_remote
RedirectPost ==
  /\ rdPc = "post"
  /\ pc = "idle"
  /\ IF rdRan
       THEN rdPc' = "copy" /\ rdCalls' = Append(rdCalls, "recv_file_from_host")
       ELSE rdPc' = "end" /\ UNCHANGED rdCalls
  /\ UNCHANGED <<rdParent, rdRan, rdErr>>
  /\ UNCHANGED restOfRedirect

RedirectCopy ==
  /\ rdPc = "copy"
  /\ StartRemote("h2d", FALSE, 1)

\* the copy is over, or has raised out of postcmd
RedirectCopied ==
  /\ rdPc = "copy"
  /\ pc = "done"
  /\ rdPc' = "end"
  /\ rdErr' = IF res.kind = "raise" THEN res.v ELSE rdErr
  /\ UNCHANGED <<rdParent, rdRan, rdCalls>>
  /\ UNCHANGED restOfRedirect

\* the shell reads the next line once the line's call has been looked at
RedirectPrompt ==
  /\ rdPc \in {"run", "post", "end"}
  /\ Prompt

InitRedirect ==
  /\ XferOff
  /\ PathOff
  /\ WatchOff
  /\ ReplOff
  /\ SyncOff
  /\ EvalOff
  /\ RuOff
  /\ board = OneBoard
  /\ Connected(1)
  /\ cur = NoDev
  /\ pc = "idle"
  /\ caller = "cmd"
  /\ hook = "none"
  /\ evalMode = FALSE
  /\ src = <<>>
  /\ chunk \in 1..MaxChunk
  /\ updTime = FALSE
  /\ ev = <<>>
  /\ hist = <<>>
  /\ exc = "none"
  /\ orig = "none"
  /\ out = NoOut
  /\ res = NoRes
  /\ attempt = 0
  /\ steps = <<>>
  /\ rdPc = "line"
  /\ rdParent \in ModeKinds
  /\ rdRan = FALSE
  /\ rdCalls = <<>>
  /\ rdErr = "none"

NextRedirect ==
  \/ RedirectParse
  \/ RedirectMode
  \/ RedirectChecked
  \/ RedirectRun
  \/ RedirectPost
  \/ RedirectCopy
  \/ RedirectCopied
  \/ RedirectPrompt
  \/ Check0
  \/ RawEnter
  \/ RawBanner1
  \/ RawReboot
  \/ RawBanner2
  \/ ExecPrompt
  \/ ExecWrite
  \/ ExecOK
  \/ Xfer
  \/ Follow
  \/ FollowOut
  \/ FollowErr
  \/ ExitRaw
  \/ Return
  \/ Except
  \/ \E s \in Sessions : LinkLoss(s)

SpecRedirect == InitRedirect /\ [][NextRedirect]_vars

\* C30: a line whose output is redirected to a file of the device in a
\* directory that does not exist is aborted before the command runs: run() is
\* never called, recv_file_from_host is never handed to the device and no
\* transfer hook writes to it; the line ends with an error, and when that is
\* the CmdShellError of the directory check the session is open and FRIENDLY.
C30_MissingDirAborts ==
  rdParent = "none" =>
    /\ ~rdRan
    /\ \A i \in 1..Len(rdCalls) : rdCalls[i] # "recv_file_from_host"
    /\ hook # "h2d"
    /\ \A i \in 1..Len(ev) : ev[i].op # "x"
    /\ rdPc = "end" => rdErr # "none"
    /\ (rdPc = "end" /\ rdErr = "CmdShellError") =>
         (slot = 1 /\ cpb[slot] = "open" /\ repl[slot] = "FRIENDLY")

\* the directory check has answered and the line is over
C30_Witness ==
  /\ rdPc = "end" /\ rdParent = "none" /\ rdErr = "CmdShellError"
  /\ rdCalls = <<"get_mode">>
  /\ pc = "idle" /\ repl[1] = "FRIENDLY"

\* C31: on an add event the watcher makes at most 8 attach attempts, and a
\* failed attempt never ends the watcher: after a failure it tries again or,
\* after the 8th, waits for the next event; its loop does not terminate.
C31_WatcherRetriesAndLives == wTry <= AddTries /\ wPc # "dead"

\* -------------------------------------------------------------- read_until
\* CpBoard.read_until (cpboard.py:95-114) byte by byte.  The board sends
\* ruAll; when a byte is in the input buffer is the board's timing.
MaxStream == 3

MaxPolls == 2

\* the prompt character and the terminator
GT == 62

Bytes == {GT, EOT}

Streams == UNION {[1..n -> Bytes] : n \in 0..MaxStream}

Endings == {<<EOT>>, <<GT, GT>>}

restOfRu == <<coreVars, pathVars, xferVars, watchVars, replVars, syncVars, evalVars,
              redirVars>>

\* data.endswith(ending)
EndsWith(d, e) == Len(d) >= Len(e) /\ SubSeq(d, Len(d) - Len(e) + 1, Len(d)) = e

\* data_consumer(new_data)
Consume(sink, new) == IF ruSinkOn THEN sink \o new ELSE sink

\* data = self.serial.read(min_num_bytes): without a serial timeout the read
\* waits until min_num_bytes have come; with one it returns what has come
RuFirst ==
  /\ ruPc = "start"
  /\ IF ruSt = 0
       THEN IF Len(ruStream) >= ruMin
              THEN /\ ruData' = SubSeq(ruStream, 1, ruMin)
                   /\ ruStream' = SubSeq(ruStream, ruMin + 1, Len(ruStream))
                   /\ ruSink' = Consume(ruSink, SubSeq(ruStream, 1, ruMin))
                   /\ ruPc' = "loop"
              ELSE /\ ruPc' = "blocked"
                   /\ UNCHANGED <<ruData, ruStream, ruSink>>
       ELSE \E k \in 0..Min(ruMin, Len(ruStream)) :
              /\ ruData' = SubSeq(ruStream, 1, k)
              /\ ruStream' = SubSeq(ruStream, k + 1, Len(ruStream))
              /\ ruSink' = Consume(ruSink, SubSeq(ruStream, 1, k))
              /\ ruPc' = "loop"
  /\ ruCount' = 0
  /\ UNCHANGED <<ruAll, ruEnding, ruMin, ruLimit, ruSt, ruSinkOn, foPc, foOut, foErr>>
  /\ UNCHANGED restOfRu

\* "if data.endswith(ending): break"
RuMatch ==
  /\ ruPc = "loop"
  /\ EndsWith(ruData, ruEnding)
  /\ ruPc' = "ret"
  /\ UNCHANGED <<ruAll, ruStream, ruEnding, ruMin, ruLimit, ruSt, ruSinkOn, ruData,
                 ruSink, ruCount, foPc, foOut, foErr>>
  /\ UNCHANGED restOfRu

\* timeout_count after a poll that read a byte
CountKept(c) == c

CountAfterByte(c) == 0

\* "elif self.serial.inWaiting() > 0": one byte is read
RuByte ==
  /\ ruPc = "loop"
  /\ ~EndsWith(ruData, ruEnding)
  /\ ruStream # <<>>
  /\ ruData' = Append(ruData, Head(ruStream))
  /\ ruStream' = Tail(ruStream)
  /\ ruSink' = Consume(ruSink, <<Head(ruStream)>>)
  /\ ruCount' = CountAfterByte(ruCount)
  /\ UNCHANGED <<ruAll, ruEnding, ruMin, ruLimit, ruSt, ruSinkOn, ruPc, foPc, foOut, foErr>>
  /\ UNCHANGED restOfRu

\* "else": nothing is waiting; the call gives up at 100 * timeout empty polls
\* in a row, and without a timeout goes on polling
RuIdle ==
  /\ ruPc = "loop"
  /\ ~EndsWith(ruData, ruEnding)
  /\ ruCount <= MaxPolls
  /\ ruCount' = ruCount + 1
  /\ ruPc' = IF ruLimit # 0 /\ ruCount + 1 >= ruLimit THEN "ret" ELSE "loop"
  /\ UNCHANGED <<ruAll, ruStream, ruEnding, ruMin, ruLimit, ruSt, ruSinkOn, ruData,
                 ruSink, foPc, foOut, foErr>>
  /\ UNCHANGED restOfRu

RuCall(ending, min, sink) ==
  /\ ruEnding = ending
  /\ ruMin = min
  /\ ruSinkOn = sink
  /\ ruData = <<>>
  /\ ruSink = <<>>
  /\ ruCount = 0
  /\ ruPc = "start"

InitReadUntil ==
  /\ CoreOff
  /\ WatchOff
  /\ ReplOff
  /\ PathOff
  /\ XferOff
  /\ SyncOff
  /\ EvalOff
  /\ RedirOff
  /\ ruAll \in Streams
  /\ ruStream = ruAll
  /\ ruLimit \in 0..MaxPolls
  /\ ruSt \in {0, 1}
  /\ \E e \in Endings, m \in 1..2, c \in BOOLEAN : RuCall(e, m, c)
  /\ foPc = "off" /\ foOut = <<>> /\ foErr = <<>>

NextReadUntil == RuFirst \/ RuMatch \/ RuByte \/ RuIdle

SpecReadUntil == InitReadUntil /\ [][NextReadUntil]_vars

\* C32: read_until returns only with a buffer that ends with the sentinel or
\* with 100 * timeout empty polls in a row, and returns at once when the
\* buffer ends with the sentinel; a poll that reads a byte sets the idle
\* counter to zero and an empty poll adds one to it; the buffer is what the
\* board has sent so far and the sink has been given exactly the buffer.
C32_ReadUntil ==
  /\ [](/\ ruData \o ruStream = ruAll
        /\ ruSink = (IF ruSinkOn THEN ruData ELSE <<>>)
        /\ ruPc = "ret" =>
             \/ EndsWith(ruData, ruEnding)
             \/ (ruLimit # 0 /\ ruCount >= ruLimit))
  /\ [][ruPc = "loop" =>
          /\ EndsWith(ruData, ruEnding) => (ruPc' = "ret" /\ ruData' = ruData)
          /\ ruData' # ruData => (ruCount' = 0 /\ ruPc' = "loop")
          /\ (ruData' = ruData /\ ~EndsWith(ruData, ruEnding)) =>
               /\ ruCount' = ruCount + 1
               /\ ruPc' = "ret" <=> (ruLimit # 0 /\ ruCount' >= ruLimit)]_ruVars

\* a byte after an empty poll, then the timeout: the buffer has no sentinel
C32_Witness ==
  /\ ruPc = "ret" /\ ruSinkOn
  /\ ruLimit = 2 /\ ruCount = 2
  /\ ruData = <<EOT, GT>> /\ ruEnding = <<GT, GT>>
  /\ ruSink = ruData /\ ruStream # <<>>

\* ------------------------------------------------------------------ follow
\* CpBoard.follow (cpboard.py:149-163): read_until(1, 0x04) for stdout, with
\* the data_consumer, and again for stderr, without one.
FoTakeOut ==
  /\ foPc = "out"
  /\ ruPc = "ret"
  /\ IF EndsWith(ruData, <<EOT>>)
       THEN /\ foOut' = SubSeq(ruData, 1, Len(ruData) - 1)
            /\ foPc' = "err"
            /\ ruData' = <<>>
            /\ ruSinkOn' = FALSE
            /\ ruSink' = <<>>
            /\ ruCount' = 0
            /\ ruPc' = "start"
       ELSE /\ foPc' = "raise"
            /\ UNCHANGED <<foOut, ruData, ruSinkOn, ruSink, ruCount, ruPc>>
  /\ UNCHANGED <<ruAll, ruStream, ruEnding, ruMin, ruLimit, ruSt, foErr>>
  /\ UNCHANGED restOfRu

\* what follow keeps of the second read
StripEot(d) == SubSeq(d, 1, Len(d) - 1)

FoTakeErr ==
  /\ foPc = "err"
  /\ ruPc = "ret"
  /\ IF EndsWith(ruData, <<EOT>>)
       THEN foErr' = StripEot(ruData) /\ foPc' = "done"
       ELSE foPc' = "raise" /\ UNCHANGED foErr
  /\ UNCHANGED <<ruAll, ruStream, ruEnding, ruMin, ruLimit, ruSt, ruSinkOn, ruData,
                 ruSink, ruCount, ruPc, foOut>>
  /\ UNCHANGED restOfRu

InitFollow ==
  /\ CoreOff
  /\ WatchOff
  /\ ReplOff
  /\ PathOff
  /\ XferOff
  /\ SyncOff
  /\ EvalOff
  /\ RedirOff
  /\ ruAll \in Streams
  /\ ruStream = ruAll
  /\ ruLimit \in 1..MaxPolls
  /\ ruSt \in {0, 1}
  /\ \E c \in BOOLEAN : RuCall(<<EOT>>, 1, c)
  /\ foPc = "out" /\ foOut = <<>> /\ foErr = <<>>

NextFollow == RuFirst \/ RuMatch \/ RuByte \/ RuIdle \/ FoTakeOut \/ FoTakeErr

SpecFollow == InitFollow /\ [][NextFollow]_vars

\* C33: when follow returns, stdout is what the board sent before the first
\* 0x04 and stderr what it sent between the first and the second, without
\* the terminators; when a terminator does not come follow raises: it
\* returns nothing partial and does not wait without end.
NoEot(d) == \A i \in 1..Len(d) : d[i] # EOT

Read == SubSeq(ruAll, 1, Len(ruAll) - Len(ruStream))

C33_FollowSplitsAtEot ==
  /\ foPc = "done" =>
       /\ Read = foOut \o <<EOT>> \o foErr \o <<EOT>>
       /\ NoEot(foOut) /\ NoEot(foErr)
  /\ foPc = "raise" => Cardinality({i \in 1..Len(Read) : Read[i] = EOT}) < 2
  /\ ruPc # "blocked"

\* C35: when the repl line ends in '~' or ';' (quit_when_no_output), the
\* reader leaves its loop at the first dev.read(1) that times out without a
\* byte, Repl.run never reads the keyboard, and Repl.run has returned only
\* after the reader has ended.
C35_QuitWhenNoOutput ==
  quitNoOut =>
    /\ keys = <<>> /\ fPc # "getch"
    /\ rChar = "empty" => rPc \in {"restore", "ended"}
    /\ fPc = "done" => rPc = "ended"

\* the prompt was woken, the first silent second ended the reader and
\* Repl.run returned
C35_Witness ==
  /\ quitNoOut /\ fPc = "done" /\ rPc = "ended"
  /\ rChar = "empty" /\ sent = <<"cr">> /\ keys = <<>>
  /\ CheckCpb(slot)

\* C36: a path with a leading ':' is never run against the host's file
\* system: whatever the slot holds, a device or none, auto does not call the
\* helper in the host process for such a path.
C36_ColonNeverOnHost ==
  pPath[1] = ":" => \A i \in 1..Len(pRan) : pRan[i].side # "host"

\* C37: Repl.run's wait for the reader to start always ends: the foreground
\* is never in "while not self._serial_reader_running(): pass" when the
\* reader has already ended, after which the flag it waits for stays False.
C37_WaitForReaderEnds == ~(fPc = "wait" /\ rPc = "ended" /\ ~running)

\* C38: recv_file_from_remote ends for every behaviour of the device: the
\* host is never in its receive loop, short of characters of the window,
\* with nothing under way on the link and the board waiting for the ACK,
\* from where no read can bring a character and the loop has no other exit.
C38_RecvLoopEnds ==
  ~(/\ xDir = "d2h"
    /\ hPc = "read" /\ rBufRem > 0
    /\ toHost = <<>> /\ toDev = <<>>
    /\ dPc = "ack")

\* C39 (as stated): the reader restores the timeout it saved on every path
\* by which it exits, an exception of the serial link and a device error
\* included: once it has saved the timeout, the reader ends only by the step
\* that writes the saved value back to the link.
C39_RestoredOnEveryExit ==
  [][(rPc \in {"check", "read", "restore"} /\ rPc' = "ended") =>
       /\ rPc = "restore"
       /\ CheckCpb(slot)
       /\ tmo'[slot] = rSave]_vars

\* C39 (amended): the reader restores the timeout it saved when it leaves
\* its loop, on the stop flag or on quit-when-no-output; on a device error it
\* returns without restoring and the session is closed.  So when the reader
\* has ended or Repl.run has returned and the session is still open, the
\* session's read timeout is what it was before the repl command.
C39_RestoredWhenOpen ==
  /\ [](((rPc = "ended" \/ fPc = "done") /\ CheckCpb(slot)) => tmo[slot] = tmo0)
  /\ [][(rPc \in {"check", "read", "restore"} /\ rPc' = "ended") =>
          \/ rPc = "restore" /\ CheckCpb(slot) /\ tmo'[slot] = rSave
          \/ ~CheckCpb(slot)']_vars

\* Control-X stopped a reader that had read under its own timeout, and
\* Repl.run returned with the session open
C39_Witness ==
  /\ fPc = "done" /\ rPc = "ended" /\ CheckCpb(slot)
  /\ quitFlag /\ rChar # "none"
  /\ tmo[slot] = tmo0 /\ rSave = tmo0

====
